---- MODULE Spec2Model ----
(***************************************************************************)
(* Model of the agent execution loop of autonomous_devops: the retryable   *)
(* model caller, the response parser and the per-round dispatch of the     *)
(* tool-using agents (builder, reviewer, QA, impact analyzer, merge        *)
(* controller, documentation).                                             *)
(*                                                                         *)
(* A response text is a sequence of tokens.  The delimiters are tokens of  *)
(* their own; "txt" is prose that is not JSON; " " is white space; every   *)
(* other token is one complete JSON document, written here with single     *)
(* quotes where JSON has double quotes.  Python values are records         *)
(* [t |-> type name, v |-> content].                                       *)
(***************************************************************************)
EXTENDS Integers, Sequences, FiniteSets, TLC

VARIABLES
    agent,          \* which agent's entry operation is running
    stubDefault,    \* environment: the model stub's usual response
    deviations,     \* environment: rounds in which the world departed from the usual
    pc,             \* "model": about to invoke the model; "done": the entry operation ended
    i,              \* the for-loop index of the round in progress (0-based, as range())
    failed,         \* what each failed invocation attempt of the current model call raised
    current_prompt, \* the conversation: the rendered template, then the appended segments
    result,         \* how the entry operation ended: returned payload or raised exception
    callFailure,    \* history: what the model call that ended the run failed with
    rounds,         \* history: one record per round whose model call succeeded
    ptext,          \* parser check: the text handed to the two extractors
    pout,           \* parser check: what the extractors gave for ptext
    stage,          \* cycle: the statement run_devops_cycle is about to execute
    cycle_result,   \* cycle: how run_devops_cycle ended
    feature_ticket, \* cycle: the product manager's output
    builder_response, \* cycle: what BuilderAgent.run returned
    hist,           \* cycle history: the steps taken, each with what it returned or raised
    merge_handed,   \* cycle: the arguments run_merge_decision was called with
    cycle_log,      \* log sink: the records of the collection orchestration_cycles
    merge_inputs,   \* merge rule: tests_pass, review_score, qa_pass, risk_score
    merge_decision, \* merge rule: the confidence computed and the decision taken
    pulls,          \* repository: the pull requests, open and closed
    heads,          \* repository: the branches that exist
    calls,          \* repository history: the create_pr calls, each with its outcome
    ticket_id,      \* branch name: feature_ticket['feature_id'], as characters
    ticket_title,   \* branch name: feature_ticket['title'], as characters
    feature_branch_name, \* branch name: the derived name
    git_world,      \* git workflow: how each git command would end, were it run
    git_step,       \* git workflow: the step automated_git_workflow is about to take
    git_trace,      \* git workflow history: the git commands run, each with how it ended
    git_success,    \* git workflow: what automated_git_workflow returned
    prior,          \* history: the agent runs that ended before the current one
    attempts        \* history: the invocations of the model made in the current run

parserVars == <<ptext, pout>>

loopVars == <<agent, stubDefault, deviations, pc, i, failed, current_prompt, result,
              callFailure, rounds>>

lateVars == <<merge_handed, cycle_log>>

cycleVars == <<stage, cycle_result, feature_ticket, builder_response, hist, lateVars>>

mergeVars == <<merge_inputs, merge_decision>>

githubVars == <<pulls, heads, calls>>

branchVars == <<ticket_id, ticket_title, feature_branch_name>>

gitVars == <<git_world, git_step, git_trace, git_success>>

runsVars == <<prior, attempts>>

\* What a model invocation of an agent run leaves alone, the count of
\* invocations apart
besideAttempts == <<cycleVars, mergeVars, githubVars, branchVars, gitVars, prior>>

otherVars == <<cycleVars, mergeVars, githubVars, branchVars, gitVars, runsVars>>

vars == <<loopVars, parserVars, otherVars>>

-----------------------------------------------------------------------------
(* Bounds of the model *)

MaxDeviations == 1

MaxTextLen == 4

\* Pull requests a repository gets, and events in its history
MaxPulls == 3

MaxEvents == 5

\* Length of the enumerated feature titles
MaxTitleLen == 3

\* Agent runs in a row
MaxRuns == 2

(* Program constants *)

max_iterations == 10

pm_max_iterations == 3

stop_after_attempt == 3

-----------------------------------------------------------------------------
(* Python values *)

PyNone == [t |-> "NoneType", v |-> 0]

PyBool(b) == [t |-> "bool", v |-> b]

PyInt(n) == [t |-> "int", v |-> n]

PyStr(s) == [t |-> "str", v |-> s]

PyList(s) == [t |-> "list", v |-> s]

PyDict(f) == [t |-> "dict", v |-> f]

PyText(s) == [t |-> "text", v |-> s]

EmptyDict == PyDict([k \in {} |-> PyNone])

\* bool(x): the truth value Python's `if x:` uses
Truthy(x) ==
    CASE x.t = "NoneType" -> FALSE
      [] x.t = "bool" -> x.v
      [] x.t = "int" -> x.v # 0
      [] x.t = "str" -> x.v # ""
      [] x.t = "list" -> Len(x.v) > 0
      [] x.t = "dict" -> DOMAIN x.v # {}
      [] OTHER -> TRUE

\* d.get(k, default) on a dict
DictGet(d, k, default) == IF k \in DOMAIN d.v THEN d.v[k] ELSE default

\* del d[k] on a dict
DictDel(d, k) == PyDict([kk \in (DOMAIN d.v) \ {k} |-> d.v[kk]])

\* hash(x) succeeds: needed by `x in some_dict`
Hashable(x) == x.t \notin {"list", "dict"}

-----------------------------------------------------------------------------
(* Tokens of a response text *)

FA_OPEN == "<final_answer>"

FA_CLOSE == "</final_answer>"

TC_OPEN == "<tool_code>"

TC_CLOSE == "</tool_code>"

JO_OPEN == "<json_output>"

JO_CLOSE == "</json_output>"

WS == " "

PROSE == "txt"

\* JSON documents a final-answer block may hold
D_OBJ_EMPTY == "{}"

D_FA == "{'status':'success','message':'m','local_changes_made':true}"

D_FA_PR == "{'status':'success','pr_url':'u','pr_number':1}"

D_ARR_EMPTY == "[]"

D_ARR == "[1]"

D_NULL == "null"

D_ZERO == "0"

D_TRUE == "true"

D_STR == "'s'"

\* A feature ticket, as the product manager's json_output block holds it
D_TICKET == "{'feature_id':'F1','title':'X','description':'d','priority':'high','acceptance_criteria':[]}"

\* A feature ticket that also carries the key "id"
D_TICKET_ID == "{'id':'T1','feature_id':'F1','title':'X','description':'d'}"

\* Builder answers: a failure reported after local changes, and a success
\* without local changes
D_FA_FAIL == "{'status':'failure','message':'m','local_changes_made':true}"

D_FA_NOCHANGE == "{'status':'success','message':'m','local_changes_made':false}"

\* A builder answer without a status key
D_FA_NOSTATUS == "{'message':'m','local_changes_made':true,'pr_url':'u'}"

\* JSON documents a tool-code block may hold
D_CALL_LOG == "{'tool_name':'MongoDB_InsertLog','parameters':{'collection_name':'c','log_entry':{}}}"

D_CALL_LOG_BADARGS == "{'tool_name':'MongoDB_InsertLog','parameters':{'bogus':1}}"

D_CALL_LOG_NULLARGS == "{'tool_name':'MongoDB_InsertLog','parameters':null}"

D_CALL_LOG_NOARGS == "{'tool_name':'MongoDB_InsertLog'}"

D_CALL_DIFF == "{'tool_name':'GitHub_GetPRDiff','parameters':{'pr_number':1}}"

\* A call of GitHub_CreateCommit with the parameter names of its description
D_CALL_COMMIT == "{'tool_name':'GitHub_CreateCommit','parameters':{'file_path':'f','content':'c','message':'m','branch':'b'}}"

D_CALL_UNKNOWN == "{'tool_name':'NoSuchTool','parameters':{}}"

D_CALL_NONAME == "{'parameters':{}}"

D_CALL_LISTNAME == "{'tool_name':['x']}"

Documents ==
    {D_OBJ_EMPTY, D_FA, D_FA_PR, D_ARR_EMPTY, D_ARR, D_NULL, D_ZERO, D_TRUE, D_STR,
     D_CALL_LOG, D_CALL_LOG_BADARGS, D_CALL_LOG_NULLARGS, D_CALL_LOG_NOARGS,
     D_CALL_DIFF, D_CALL_UNKNOWN, D_CALL_NONAME, D_CALL_LISTNAME, D_TICKET,
     D_TICKET_ID, D_FA_FAIL, D_FA_NOCHANGE, D_CALL_COMMIT, D_FA_NOSTATUS}

\* The value json.loads gives for each document
DocumentValue(d) ==
    CASE d = D_OBJ_EMPTY -> EmptyDict
      [] d = D_FA -> PyDict([status |-> PyStr("success"), message |-> PyStr("m"),
                             local_changes_made |-> PyBool(TRUE)])
      [] d = D_FA_PR -> PyDict([status |-> PyStr("success"), pr_url |-> PyStr("u"),
                                pr_number |-> PyInt(1)])
      [] d = D_ARR_EMPTY -> PyList(<< >>)
      [] d = D_ARR -> PyList(<<PyInt(1)>>)
      [] d = D_NULL -> PyNone
      [] d = D_ZERO -> PyInt(0)
      [] d = D_TRUE -> PyBool(TRUE)
      [] d = D_STR -> PyStr("s")
      [] d = D_CALL_LOG ->
            PyDict([tool_name |-> PyStr("MongoDB_InsertLog"),
                    parameters |-> PyDict([collection_name |-> PyStr("c"),
                                           log_entry |-> EmptyDict])])
      [] d = D_CALL_LOG_BADARGS ->
            PyDict([tool_name |-> PyStr("MongoDB_InsertLog"),
                    parameters |-> PyDict([bogus |-> PyInt(1)])])
      [] d = D_CALL_LOG_NULLARGS ->
            PyDict([tool_name |-> PyStr("MongoDB_InsertLog"), parameters |-> PyNone])
      [] d = D_CALL_LOG_NOARGS -> PyDict([tool_name |-> PyStr("MongoDB_InsertLog")])
      [] d = D_CALL_DIFF ->
            PyDict([tool_name |-> PyStr("GitHub_GetPRDiff"),
                    parameters |-> PyDict([pr_number |-> PyInt(1)])])
      [] d = D_FA_NOSTATUS ->
            PyDict([message |-> PyStr("m"), local_changes_made |-> PyBool(TRUE),
                    pr_url |-> PyStr("u")])
      [] d = D_CALL_COMMIT ->
            PyDict([tool_name |-> PyStr("GitHub_CreateCommit"),
                    parameters |-> PyDict([file_path |-> PyStr("f"), content |-> PyStr("c"),
                                           message |-> PyStr("m"), branch |-> PyStr("b")])])
      [] d = D_CALL_UNKNOWN ->
            PyDict([tool_name |-> PyStr("NoSuchTool"), parameters |-> EmptyDict])
      [] d = D_CALL_NONAME -> PyDict([parameters |-> EmptyDict])
      [] d = D_CALL_LISTNAME -> PyDict([tool_name |-> PyList(<<PyStr("x")>>)])
      [] d = D_TICKET_ID ->
            PyDict([id |-> PyStr("T1"), feature_id |-> PyStr("F1"), title |-> PyStr("X"),
                    description |-> PyStr("d")])
      [] d = D_FA_FAIL -> PyDict([status |-> PyStr("failure"), message |-> PyStr("m"),
                                  local_changes_made |-> PyBool(TRUE)])
      [] d = D_FA_NOCHANGE -> PyDict([status |-> PyStr("success"), message |-> PyStr("m"),
                                      local_changes_made |-> PyBool(FALSE)])
      [] d = D_TICKET ->
            PyDict([feature_id |-> PyStr("F1"), title |-> PyStr("X"),
                    description |-> PyStr("d"), priority |-> PyStr("high"),
                    acceptance_criteria |-> PyList(<< >>)])

-----------------------------------------------------------------------------
(* The response parser *)

\* Least index >= from at which tok occurs in text, or 0
RECURSIVE IndexFrom(_, _, _)
IndexFrom(text, tok, from) ==
    IF from > Len(text) THEN 0
    ELSE IF text[from] = tok THEN from
    ELSE IndexFrom(text, tok, from + 1)

\* A greedy search: from the leftmost opening delimiter to the last closing
\* delimiter after it
re_search_greedy(open, close, text) ==
    LET a == IndexFrom(text, open, 1)
        closes == {n \in (a + 1)..Len(text) : text[n] = close}
    IN  IF a = 0 \/ closes = {} THEN [matched |-> FALSE, group1 |-> << >>]
        ELSE [matched |-> TRUE,
              group1 |-> SubSeq(text, a + 1, (CHOOSE n \in closes : \A m \in closes : m <= n) - 1)]

\* re.search(open + r'(.*?)' + close, text, re.DOTALL): the leftmost opening
\* delimiter that a closing delimiter follows, up to the nearest such closing
\* delimiter; group1 is what lies between
re_search(open, close, text) ==
    LET a == IndexFrom(text, open, 1)
        b == IF a = 0 THEN 0 ELSE IndexFrom(text, close, a + 1)
    IN  IF b = 0 THEN [matched |-> FALSE, group1 |-> << >>]
        ELSE [matched |-> TRUE, group1 |-> SubSeq(text, a + 1, b - 1)]

\* str.strip(): white space removed at both ends
RECURSIVE strip(_)
strip(s) ==
    IF s = << >> THEN s
    ELSE IF Head(s) = WS THEN strip(Tail(s))
    ELSE IF s[Len(s)] = WS THEN strip(SubSeq(s, 1, Len(s) - 1))
    ELSE s

\* json.loads: a value, or JSONDecodeError. Text decodes iff, white space at
\* its ends aside, it is exactly one JSON document.
json_loads(s) ==
    LET c == strip(s)
    IN  IF Len(c) = 1 /\ c[1] \in Documents
        THEN [ok |-> TRUE, val |-> DocumentValue(c[1])]
        ELSE [ok |-> FALSE, val |-> PyNone]

\* _parse_final_answer(text): the decoded value, or None
parse_final_answer(text) ==
    LET m == re_search(FA_OPEN, FA_CLOSE, text)
        j == json_loads(strip(m.group1))
    IN  IF m.matched /\ j.ok THEN j.val ELSE PyNone

\* _parse_tool_code(text): (tool_name, parameters), (None, None), or the
\* AttributeError of calling .get on a decoded value that is no dict
parse_tool_code(text) ==
    LET m == re_search(TC_OPEN, TC_CLOSE, text)
        j == json_loads(strip(m.group1))
    IN  IF m.matched /\ j.ok
        THEN IF j.val.t = "dict"
             THEN [exc |-> "", tool_name |-> DictGet(j.val, "tool_name", PyNone),
                   tool_params |-> DictGet(j.val, "parameters", EmptyDict)]
             ELSE [exc |-> "AttributeError", tool_name |-> PyNone, tool_params |-> PyNone]
        ELSE [exc |-> "", tool_name |-> PyNone, tool_params |-> PyNone]

-----------------------------------------------------------------------------
(* Agents and their tool registries *)

\* The tool-using agents that wrap the model call in the retryable caller
RetryAgents == {"builder", "doc"}

DirectAgents == {"reviewer", "qa", "impact", "merge"}

ToolAgents == RetryAgents \cup DirectAgents

\* The product manager: retryable caller, no tools, its own loop
Agents == ToolAgents \cup {"pm"}

\* self.tools of each agent: the registered tool names
tools(ag) ==
    CASE ag = "builder" ->
            {"GitHub_GetRepoContent", "LocalFile_Write", "Selenium_RunTests",
             "MongoDB_InsertLog"}
      [] ag = "reviewer" -> {"GitHub_GetPRDiff", "GitHub_CreateCommit", "MongoDB_InsertLog"}
      [] ag = "qa" ->
            {"CIManager_DeployToVercel", "CIManager_DeployToDocker",
             "Selenium_DeployAndTestUI", "MongoDB_InsertLog"}
      [] ag = "impact" ->
            {"GitHub_GetPRDiff", "RiskAnalyzer_AnalyzeDiff", "MongoDB_InsertLog"}
      [] ag = "merge" -> {"GitHub_CreateCommit", "MongoDB_InsertLog", "GitHub_MergePR"}
      [] ag = "doc" ->
            {"GitHub_GetPRDiff", "GitHub_GetRepoContent", "GitHub_CreateCommit",
             "MongoDB_InsertLog"}
      [] OTHER -> {}

\* The parameters of the callable registered under each tool name
Signature(tool) ==
    CASE tool = "GitHub_GetRepoContent" -> [req |-> {}, opt |-> {"path"}]
      [] tool = "LocalFile_Write" -> [req |-> {"file_path", "content"}, opt |-> {}]
      [] tool = "Selenium_RunTests" -> [req |-> {"test_file_path"}, opt |-> {}]
      [] tool = "MongoDB_InsertLog" -> [req |-> {"collection_name", "log_entry"}, opt |-> {}]
      [] tool = "GitHub_GetPRDiff" -> [req |-> {"pr_number"}, opt |-> {}]
      [] tool = "GitHub_CreateCommit" ->
            [req |-> {"branch", "file_path", "content", "commit_message"}, opt |-> {}]
      [] tool = "CIManager_DeployToVercel" -> [req |-> {"project_path"}, opt |-> {}]
      [] tool = "CIManager_DeployToDocker" -> [req |-> {"project_path"}, opt |-> {}]
      [] tool = "Selenium_DeployAndTestUI" -> [req |-> {"deploy_url", "actions"}, opt |-> {}]
      [] tool = "RiskAnalyzer_AnalyzeDiff" ->
            [req |-> {"commit_diff", "repo_vector_memory"}, opt |-> {}]
      [] OTHER -> [req |-> {}, opt |-> {}]

\* The parameter names that the description of each registered tool lists
\* after "Input:"
Advertised(tool) ==
    CASE tool = "GitHub_GetRepoContent" -> {"path"}
      [] tool = "LocalFile_Write" -> {"file_path", "content"}
      [] tool = "Selenium_RunTests" -> {"test_file_path"}
      [] tool = "MongoDB_InsertLog" -> {"collection_name", "log_entry"}
      [] tool = "GitHub_GetPRDiff" -> {"pr_number"}
      [] tool = "GitHub_CreateCommit" -> {"file_path", "content", "message", "branch"}
      [] tool = "CIManager_DeployToVercel" -> {"project_path"}
      [] tool = "CIManager_DeployToDocker" -> {"project_path"}
      [] tool = "Selenium_DeployAndTestUI" -> {"deploy_url", "actions"}
      [] tool = "RiskAnalyzer_AnalyzeDiff" -> {"commit_diff", "repo_vector_memory"}
      [] tool = "GitHub_MergePR" -> {"pr_number", "commit_title"}
      [] OTHER -> {}

\* tool_func(**tool_params) binds: tool_params is a mapping whose keys are
\* parameters of the callable and cover the required ones. Otherwise the
\* call raises TypeError before the callable runs.
Binds(tool, tool_params) ==
    /\ tool_params.t = "dict"
    /\ Signature(tool).req \subseteq DOMAIN tool_params.v
    /\ DOMAIN tool_params.v \subseteq Signature(tool).req \cup Signature(tool).opt

-----------------------------------------------------------------------------
(* Conversation segments and results *)

Template == [kind |-> "template", tool |-> "", text |-> << >>]

ToolOutputSegment(tool) == [kind |-> "Tool Output", tool |-> tool, text |-> << >>]

\* A tool-error segment that does not name the tool
ToolErrorSegment_unnamed(tool) == [kind |-> "Tool Error", tool |-> "", text |-> << >>]

ToolErrorSegment(tool) == [kind |-> "Tool Error", tool |-> tool, text |-> << >>]

AssistantSegment(response_text) ==
    [kind |-> "LLM Thought/Response", tool |-> "", text |-> response_text]

NoResult == [kind |-> "none", payload |-> PyNone, exc |-> ""]

Return(payload) == [kind |-> "return", payload |-> payload, exc |-> ""]

Raise(exc) == [kind |-> "raise", payload |-> PyNone, exc |-> exc]

QUOTA_MESSAGE == "failed due to Gemini API quota exhaustion"

UNEXPECTED_MESSAGE == "failed due to an unexpected error"

EXHAUSTED_MESSAGE == "reached max iterations without providing a final answer."

PM_EXHAUSTED_MESSAGE == "Product Manager Agent failed to generate valid JSON after multiple attempts."

\* The error segments the product manager appends to its prompt
PMNoTextSegment == [kind |-> "Error: LLM did not return any text", tool |-> "", text |-> << >>]

PMInvalidJSONSegment(json_str) ==
    [kind |-> "Error: Invalid JSON format", tool |-> "", text |-> json_str]

PMNoTagsSegment ==
    [kind |-> "Error: JSON output not enclosed in <json_output> tags", tool |-> "",
     text |-> << >>]

\* The failure payload of each agent: builder carries local_changes_made,
\* the others raw_response
FailurePayload(ag, message, raw_response) ==
    IF ag = "builder"
    THEN PyDict([status |-> PyStr("failure"), message |-> PyStr(message),
                 local_changes_made |-> PyBool(FALSE)])
    ELSE PyDict([status |-> PyStr("failure"), message |-> PyStr(message),
                 raw_response |-> PyText(raw_response)])

-----------------------------------------------------------------------------
(* The retryable model caller: tenacity's @retry around llm.generate_content *)

FailureKinds == {"ResourceExhausted", "OtherError"}

\* A caller that retries whatever the attempt raised
ShouldRetry_any(exc) == exc \in FailureKinds



\* retry=retry_if_exception_type(ResourceExhausted)
ShouldRetry(exc) == exc = "ResourceExhausted"

\* A stop condition that lets one more attempt through
ShouldStop_late(attempt_number) == attempt_number > stop_after_attempt

\* stop=stop_after_attempt(3), asked after the attempt_number-th attempt failed
ShouldStop(attempt_number) == attempt_number >= stop_after_attempt

\* What the caller does when its attempt_number-th attempt raised exc: an
\* exception the retry predicate rejects is re-raised as it is; one it accepts
\* is retried after the back-off wait, or, when the stop condition holds,
\* replaced by tenacity's RetryError (the decorator does not set reraise)
RetryCallerOnFailure(exc, attempt_number) ==
    IF ~ShouldRetry(exc) THEN [again |-> FALSE, exc |-> exc]
    ELSE IF ShouldStop(attempt_number) THEN [again |-> FALSE, exc |-> "RetryError"]
    ELSE [again |-> TRUE, exc |-> ""]

\* Whether the expression naming the retried exception type evaluates when the
\* decorator is applied: builder_agent imports `exceptions`;
\* auto_documentation_agent writes google.api_core.exceptions, and the module
\* binds no name `google` (it imports google.generativeai as genai)
RetryDecoratorResolves(ag) == ag # "doc"

\* Whether the expression naming the exception type of the first except
\* clause evaluates: product_manager_agent and auto_documentation_agent write
\* google.api_core.exceptions there, and bind no name `google`
ExceptClauseResolves(ag) == ag \notin {"pm", "doc"}

\* A loop without except clauses: the caller's exception leaves the run
OnModelFailure_propagates(ag, exc) == Raise(exc)

\* The except clauses around the model call of a retrying agent: the first
\* catches ResourceExhausted, the second every other Exception
OnModelFailure(ag, exc) ==
    IF ~ExceptClauseResolves(ag) THEN Raise("NameError")
    ELSE IF exc = "ResourceExhausted"
    THEN Return(FailurePayload(ag, QUOTA_MESSAGE, << >>))
    ELSE Return(FailurePayload(ag, UNEXPECTED_MESSAGE, << >>))

-----------------------------------------------------------------------------
(* One round's handling of a model response *)

\* response_text of a round: the retrying agents test response.parts and use
\* "" for a response without parts; the others read response.text, which
\* raises ValueError for such a response
ResponseText(ag, response) ==
    IF response.parts THEN [exc |-> "", text |-> response.text]
    ELSE IF ag \in RetryAgents THEN [exc |-> "", text |-> << >>]
    ELSE [exc |-> "ValueError", text |-> << >>]

\* `k in x`: membership for a dict (keys), a list (elements) or a str
\* (substring: the model's strings are no longer than the key, so containment
\* is equality); TypeError for a value that is not iterable
InTest(x, k) ==
    CASE x.t = "dict" -> [exc |-> "", yes |-> k \in DOMAIN x.v]
      [] x.t = "list" ->
            [exc |-> "",
             yes |-> \E n \in 1..Len(x.v) : x.v[n].t = "str" /\ x.v[n].v = k]
      [] x.t = "str" -> [exc |-> "", yes |-> x.v = k]
      [] OTHER -> [exc |-> "TypeError", yes |-> FALSE]

\* `if k in x: del x[k]`
StripKey(x, k) ==
    LET a == InTest(x, k)
    IN  IF a.exc # "" THEN [exc |-> a.exc, val |-> x]
        ELSE IF ~a.yes THEN [exc |-> "", val |-> x]
        ELSE IF x.t = "dict" THEN [exc |-> "", val |-> DictDel(x, k)]
        ELSE [exc |-> "TypeError", val |-> x]

\* A loop that returns the final answer as decoded, for every agent
OnFinalAnswer_keeps(ag, final_answer) == Return(final_answer)

\* A builder that, after removing the two keys, gives an answer without a
\* status the status "success"
OnFinalAnswer_defaults(ag, final_answer) ==
    LET s1 == StripKey(final_answer, "pr_url")
        s2 == StripKey(s1.val, "pr_number")
    IN  IF ag # "builder" THEN Return(final_answer)
        ELSE IF s1.exc # "" THEN Raise(s1.exc)
        ELSE IF s2.exc # "" THEN Raise(s2.exc)
        ELSE IF s2.val.t = "dict" /\ "status" \notin DOMAIN s2.val.v
        THEN Return(PyDict([k \in DOMAIN s2.val.v \cup {"status"} |->
                               IF k = "status" THEN PyStr("success") ELSE s2.val.v[k]]))
        ELSE Return(s2.val)

\* What a truthy final answer makes the run end with: the builder first
\* removes pr_url and pr_number, the other agents return it as decoded
OnFinalAnswer(ag, final_answer) ==
    IF ag = "builder"
    THEN LET s1 == StripKey(final_answer, "pr_url")
             s2 == StripKey(s1.val, "pr_number")
         IN  IF s1.exc # "" THEN Raise(s1.exc)
             ELSE IF s2.exc # "" THEN Raise(s2.exc)
             ELSE Return(s2.val)
    ELSE Return(final_answer)

\* The test `if final_answer:` that decides whether the round ends the run
IsFinal(final_answer) == Truthy(final_answer)

\* The test `if tool_name and tool_name in self.tools`: "yes", "no", or the
\* TypeError of looking an unhashable value up in the registry
ToolTest(ag, tool_name) ==
    IF ~Truthy(tool_name) THEN "no"
    ELSE IF ~Hashable(tool_name) THEN "TypeError"
    ELSE IF tool_name.t = "str" /\ tool_name.v \in tools(ag) THEN "yes"
    ELSE "no"

\* Whether the round's response makes the agent call a registered tool
\* whose parameters bind, so that the capability itself runs
CapabilityRuns(ag, response) ==
    LET rt == ResponseText(ag, response)
        tc == parse_tool_code(rt.text)
    IN  /\ rt.exc = ""
        /\ ~IsFinal(parse_final_answer(rt.text))
        /\ tc.exc = ""
        /\ ToolTest(ag, tc.tool_name) = "yes"
        /\ Binds(tc.tool_name.v, tc.tool_params)

\* The body of the for loop after a successful model call. event is what the
\* round did: "final" (run ends with the final answer), "raise" (an exception
\* leaves the entry operation), "tool_ok" / "tool_error" (a registered tool
\* was called and returned / raised) or "text" (free-text accumulation).
\* capabilityRaises: whether the capability, once running, raises.
Dispatch(ag, response, capabilityRaises) ==
    LET rt == ResponseText(ag, response)
        final_answer == parse_final_answer(rt.text)
        tc == parse_tool_code(rt.text)
        test == ToolTest(ag, tc.tool_name)
        none == [event |-> "text", result |-> NoResult, tool |-> "",
                 segment |-> AssistantSegment(rt.text), response_text |-> rt.text]
    IN  IF rt.exc # "" THEN [none EXCEPT !.event = "raise", !.result = Raise(rt.exc)]
        ELSE IF IsFinal(final_answer)
        THEN LET r == OnFinalAnswer(ag, final_answer)
             IN  [none EXCEPT !.event = IF r.kind = "raise" THEN "raise" ELSE "final",
                              !.result = r]
        ELSE IF tc.exc # "" THEN [none EXCEPT !.event = "raise", !.result = Raise(tc.exc)]
        ELSE IF test = "TypeError"
        THEN [none EXCEPT !.event = "raise", !.result = Raise("TypeError")]
        ELSE IF test = "yes"
        THEN IF Binds(tc.tool_name.v, tc.tool_params) /\ ~capabilityRaises
             THEN [none EXCEPT !.event = "tool_ok", !.tool = tc.tool_name.v,
                               !.segment = ToolOutputSegment(tc.tool_name.v)]
             ELSE [none EXCEPT !.event = "tool_error", !.tool = tc.tool_name.v,
                               !.segment = ToolErrorSegment(tc.tool_name.v)]
        ELSE none

\* A loop that takes only a non-empty decoded value for an answer
DispatchPM_truthy(response) ==
    LET m == re_search(JO_OPEN, JO_CLOSE, response.text)
        json_str == strip(m.group1)
        j == json_loads(json_str)
    IN  IF ~response.parts
        THEN [event |-> "text", result |-> NoResult, segment |-> PMNoTextSegment]
        ELSE IF ~m.matched
        THEN [event |-> "text", result |-> NoResult, segment |-> PMNoTagsSegment]
        ELSE IF j.ok /\ Truthy(j.val)
        THEN [event |-> "final",
              result |-> Return(PyDict([status |-> PyStr("success"), output |-> j.val])),
              segment |-> PMNoTagsSegment]
        ELSE [event |-> "text", result |-> NoResult,
              segment |-> PMInvalidJSONSegment(json_str)]

\* The body of the product manager's loop after a successful model call
DispatchPM(response) ==
    LET m == re_search(JO_OPEN, JO_CLOSE, response.text)
        json_str == strip(m.group1)
        j == json_loads(json_str)
    IN  IF ~response.parts
        THEN [event |-> "text", result |-> NoResult, segment |-> PMNoTextSegment]
        ELSE IF ~m.matched
        THEN [event |-> "text", result |-> NoResult, segment |-> PMNoTagsSegment]
        ELSE IF j.ok
        THEN [event |-> "final",
              result |-> Return(PyDict([status |-> PyStr("success"), output |-> j.val])),
              segment |-> PMNoTagsSegment]
        ELSE [event |-> "text", result |-> NoResult,
              segment |-> PMInvalidJSONSegment(json_str)]

-----------------------------------------------------------------------------
(* The environment: what the model stub answers *)

Response(text) == [parts |-> TRUE, text |-> text]

\* A response without textual content (blocked or empty)
EmptyResponse == [parts |-> FALSE, text |-> << >>]

FinalAnswerBlock(d) == <<FA_OPEN, d, FA_CLOSE>>

ToolCodeBlock(d) == <<TC_OPEN, d, TC_CLOSE>>

\* The stub's usual response: prose, or a call of a tool every agent registers
DefaultResponses == {Response(<<PROSE>>), Response(ToolCodeBlock(D_CALL_LOG))}

StubResponses ==
    DefaultResponses \cup
    {EmptyResponse,
     Response(FinalAnswerBlock(D_FA)),
     Response(FinalAnswerBlock(D_FA_PR)),
     Response(FinalAnswerBlock(D_FA_NOSTATUS)),
     Response(FinalAnswerBlock(D_OBJ_EMPTY)),
     Response(FinalAnswerBlock(D_ARR)),
     Response(FinalAnswerBlock(D_TRUE)),
     Response(FinalAnswerBlock(D_FA) \o ToolCodeBlock(D_CALL_LOG)),
     Response(ToolCodeBlock(D_CALL_DIFF)),
     Response(ToolCodeBlock(D_CALL_COMMIT)),
     Response(ToolCodeBlock(D_CALL_LOG_NULLARGS)),
     Response(ToolCodeBlock(D_CALL_UNKNOWN)),
     Response(ToolCodeBlock(D_CALL_NONAME)),
     Response(ToolCodeBlock(D_CALL_LISTNAME)),
     Response(ToolCodeBlock(PROSE)),
     Response(ToolCodeBlock(D_ARR))}

JsonOutputBlock(d) == <<JO_OPEN, d, JO_CLOSE>>

PMResponses ==
    {Response(<<PROSE>>), EmptyResponse,
     Response(JsonOutputBlock(D_TICKET)),
     Response(JsonOutputBlock(D_OBJ_EMPTY)),
     Response(JsonOutputBlock(D_ARR)),
     Response(JsonOutputBlock(PROSE)),
     Response(<<PROSE, JO_OPEN, WS, D_TICKET, WS, JO_CLOSE>>)}

-----------------------------------------------------------------------------
(* The agent loop *)

NoFailure == [surfaced |-> "", last |-> ""]

NotParsed == [done |-> FALSE, final_answer |-> PyNone,
              tool_code |-> [exc |-> "", tool_name |-> PyNone, tool_params |-> PyNone]]

\* run_merge_decision has not been called
NotHanded ==
    [handed |-> FALSE, test_results |-> PyNone, review_feedback |-> PyNone,
     qa_report |-> PyNone, risk_score |-> 0]

\* No cycle is running
IdleCycle ==
    /\ stage = "idle"
    /\ cycle_result = NoResult
    /\ feature_ticket = PyNone
    /\ builder_response = PyNone
    /\ hist = << >>
    /\ merge_handed = NotHanded
    /\ cycle_log = << >>

\* No merge decision is being computed
IdleMerge ==
    /\ merge_inputs = [tests_pass |-> 0, review_score |-> 0, qa_pass |-> 0, risk_score |-> 0]
    /\ merge_decision = [done |-> FALSE, confidence |-> 0, merge |-> FALSE]

\* How a git command ends: the commands of the workflow, and for each the
\* ways it can end. git commit with nothing to commit exits with an error;
\* "nothing": "nothing to commit" is in its stderr; "nothing_stdout": the
\* report is on its stdout and not in its stderr. "rejected": git push fails
\* because the remote has other work.
GitWorlds ==
    [repo_exists : BOOLEAN,
     clone : {"ok", "fail"},
     status : {"changes", "clean", "fail"},
     add : {"ok", "fail"},
     commit : {"ok", "nothing", "nothing_stdout", "fail"},
     pull : {"ok", "fail"},
     push : {"ok", "rejected", "fail"}]

\* No git workflow is running
IdleGit ==
    /\ git_world = [repo_exists |-> TRUE, clone |-> "ok", status |-> "clean", add |-> "ok",
                    commit |-> "ok", pull |-> "ok", push |-> "ok"]
    /\ git_step = "idle"
    /\ git_trace = << >>
    /\ git_success = FALSE

\* No agent run has ended yet
IdleRuns == prior = << >> /\ attempts = 0

\* The repository is not in use
IdleGithub ==
    /\ pulls = {}
    /\ heads = {}
    /\ calls = << >>

\* No branch name is being derived
IdleBranch ==
    /\ ticket_id = << >>
    /\ ticket_title = << >>
    /\ feature_branch_name = << >>

Init ==
    /\ IdleCycle /\ IdleMerge /\ IdleGithub /\ IdleBranch /\ IdleGit /\ IdleRuns
    /\ agent \in Agents
    /\ stubDefault \in IF agent = "pm" THEN {Response(<<PROSE>>)} ELSE DefaultResponses
    /\ deviations = 0
    /\ pc = "model"
    /\ i = 0
    /\ failed = << >>
    /\ current_prompt = <<Template>>
    /\ result = NoResult
    /\ callFailure = NoFailure
    /\ rounds = << >>
    /\ ptext = << >>
    /\ pout = NotParsed

\* A prompt that keeps only the template and the newest segment
Accumulate_rewrites(prompt, segment) == <<prompt[1], segment>>

\* A prompt that takes the segment twice
Accumulate_twice(prompt, segment) == Append(Append(prompt, segment), segment)

\* current_prompt += segment
Accumulate(prompt, segment) == Append(prompt, segment)

\* A round of a retrying agent starts by applying the @retry decorator
CanCall == agent \notin DirectAgents => RetryDecoratorResolves(agent)

\* auto_documentation_agent: the decorator's argument raises NameError
DecoratorNameError ==
    /\ pc = "model"
    /\ ~CanCall
    /\ result' = Raise("NameError")
    /\ pc' = "done"
    /\ UNCHANGED <<agent, stubDefault, deviations, i, failed, current_prompt,
                   callFailure, rounds, parserVars, otherVars>>

\* One invocation of llm.generate_content raises exc
AttemptFailsBody(exc) ==
    /\ pc = "model"
    /\ CanCall
    /\ failed' = Append(failed, exc)
    /\ IF agent \notin DirectAgents
       THEN LET d == RetryCallerOnFailure(exc, Len(failed) + 1)
            IN  IF d.again
                THEN UNCHANGED <<pc, result, callFailure>>
                ELSE /\ result' = OnModelFailure(agent, d.exc)
                     /\ callFailure' = [surfaced |-> d.exc, last |-> exc]
                     /\ pc' = "done"
       ELSE /\ result' = Raise(exc)
            /\ callFailure' = [surfaced |-> exc, last |-> exc]
            /\ pc' = "done"
    /\ UNCHANGED <<agent, stubDefault, deviations, i, current_prompt, rounds,
                   parserVars, besideAttempts>>

AttemptFails(exc) == AttemptFailsBody(exc) /\ UNCHANGED attempts

\* One invocation of llm.generate_content returns response, and the rest of
\* the loop body handles it; after the last round the loop falls through to
\* the failure result
RoundBody(response, capabilityRaises) ==
    LET d == Dispatch(agent, response, capabilityRaises)
        cost == (IF response = stubDefault THEN 0 ELSE 1)
                + (IF capabilityRaises THEN 1 ELSE 0)
    IN  /\ pc = "model"
        /\ agent \in ToolAgents
        /\ CanCall
        /\ capabilityRaises => CapabilityRuns(agent, response)
        /\ deviations + cost <= MaxDeviations
        /\ deviations' = deviations + cost
        /\ failed' = << >>
        /\ rounds' = Append(rounds, [response |-> response, event |-> d.event,
                                     tool |-> d.tool])
        /\ IF d.event \in {"final", "raise"}
           THEN /\ result' = d.result
                /\ pc' = "done"
                /\ UNCHANGED <<i, current_prompt>>
           ELSE /\ current_prompt' = Accumulate(current_prompt, d.segment)
                /\ i' = i + 1
                /\ IF i + 1 = max_iterations
                   THEN /\ result' = Return(FailurePayload(agent, EXHAUSTED_MESSAGE,
                                                           d.response_text))
                        /\ pc' = "done"
                   ELSE UNCHANGED <<result, pc>>
        /\ UNCHANGED <<agent, stubDefault, callFailure, parserVars, besideAttempts>>

Round(response, capabilityRaises) ==
    RoundBody(response, capabilityRaises) /\ UNCHANGED attempts

\* The product manager's round: a successful model call and the handling of
\* its response; after the last round the loop falls through to the failure
\* result
PMRound(response) ==
    LET d == DispatchPM(response)
        cost == IF response = stubDefault THEN 0 ELSE 1
    IN  /\ pc = "model"
        /\ agent = "pm"
        /\ deviations + cost <= MaxDeviations
        /\ deviations' = deviations + cost
        /\ failed' = << >>
        /\ rounds' = Append(rounds, [response |-> response, event |-> d.event,
                                     tool |-> ""])
        /\ IF d.event = "final"
           THEN /\ result' = d.result
                /\ pc' = "done"
                /\ UNCHANGED <<i, current_prompt>>
           ELSE /\ current_prompt' = Accumulate(current_prompt, d.segment)
                /\ i' = i + 1
                /\ IF i + 1 = pm_max_iterations
                   THEN /\ result' = Return(PyDict([status |-> PyStr("failure"),
                                                    message |-> PyStr(PM_EXHAUSTED_MESSAGE)]))
                        /\ pc' = "done"
                   ELSE UNCHANGED <<result, pc>>
        /\ UNCHANGED <<agent, stubDefault, callFailure, parserVars, otherVars>>

Next ==
    \/ DecoratorNameError
    \/ \E exc \in FailureKinds : AttemptFails(exc)
    \/ \E response \in StubResponses, capabilityRaises \in BOOLEAN :
          Round(response, capabilityRaises)
    \/ \E response \in PMResponses : PMRound(response)

Spec == Init /\ [][Next]_vars

-----------------------------------------------------------------------------
(* Agent runs one after another, as the cycle makes them *)

\* A run that goes on with the conversation the run before it left
render_template_carries(prompt) == prompt

\* current_prompt = ..._PROMPT_TEMPLATE.format(...): the run's first
\* assignment to its local current_prompt
render_template(prompt) == <<Template>>

\* The agent the cycle constructs and runs after ag; the documentation
\* agent is constructed and run a second time after the merge controller
Following(ag) ==
    CASE ag = "pm" -> "builder"
      [] ag = "builder" -> "doc"
      [] ag = "doc" -> "reviewer"
      [] ag = "reviewer" -> "qa"
      [] ag = "qa" -> "impact"
      [] ag = "impact" -> "merge"
      [] OTHER -> "doc"

\* The entry operation of ag is called after the current run ended: its
\* locals start afresh.  The model stub stays the one it was.
StartRun(ag) ==
    /\ pc = "done"
    /\ Len(prior) + 1 < MaxRuns
    /\ ag \in {agent, Following(agent)}
    /\ prior' = Append(prior, [agent |-> agent, prompt |-> current_prompt])
    /\ agent' = ag
    /\ UNCHANGED stubDefault
    /\ pc' = "model"
    /\ i' = 0
    /\ failed' = << >>
    /\ current_prompt' = render_template(current_prompt)
    /\ result' = NoResult
    /\ callFailure' = NoFailure
    /\ rounds' = << >>
    /\ UNCHANGED <<deviations, attempts, parserVars, cycleVars, mergeVars, githubVars,
                   branchVars, gitVars>>

NextRuns ==
    \/ Next
    \/ \E ag \in Agents : StartRun(ag)

SpecRuns == Init /\ [][NextRuns]_vars

-----------------------------------------------------------------------------
(* The builder's run with its model invocations counted *)

InitAttempts == Init /\ agent = "builder"

\* _generate_content_with_retry calls self.llm.generate_content once more,
\* and the call raises exc
CountedAttemptFails(exc) == AttemptFailsBody(exc) /\ attempts' = attempts + 1

\* _generate_content_with_retry calls self.llm.generate_content once more,
\* and the call returns response
CountedRound(response, capabilityRaises) ==
    RoundBody(response, capabilityRaises) /\ attempts' = attempts + 1

NextAttempts ==
    \/ \E exc \in FailureKinds : CountedAttemptFails(exc)
    \/ \E response \in StubResponses, capabilityRaises \in BOOLEAN :
          CountedRound(response, capabilityRaises)

SpecAttempts == InitAttempts /\ [][NextAttempts]_vars

-----------------------------------------------------------------------------
(* The extractors applied to every text of up to MaxTextLen tokens *)

ParserAlphabet ==
    {FA_OPEN, FA_CLOSE, TC_OPEN, TC_CLOSE, WS, PROSE,
     D_OBJ_EMPTY, D_FA, D_ARR, D_NULL, D_CALL_LOG}

\* What a block may hold between its delimiters
BlockBodies == {<<D_FA>>, <<D_CALL_LOG>>, <<D_OBJ_EMPTY>>, <<PROSE>>, <<WS, D_FA, WS>>}

\* Responses with two blocks of one kind, and with an opening delimiter
\* inside a block
TwoBlockTexts ==
    UNION {{<<d[1]>> \o b1 \o <<d[2], d[1]>> \o b2 \o <<d[2]>>,
            <<d[1]>> \o b1 \o <<d[1]>> \o b2 \o <<d[2]>>} :
           d \in {<<FA_OPEN, FA_CLOSE>>, <<TC_OPEN, TC_CLOSE>>},
           b1 \in BlockBodies, b2 \in BlockBodies}

Texts == UNION {[1..n -> ParserAlphabet] : n \in 0..MaxTextLen} \cup TwoBlockTexts

InitParser ==
    /\ IdleCycle /\ IdleMerge /\ IdleGithub /\ IdleBranch /\ IdleGit /\ IdleRuns
    /\ agent = "builder"
    /\ stubDefault = Response(<<PROSE>>)
    /\ deviations = 0
    /\ pc = "parse"
    /\ i = 0
    /\ failed = << >>
    /\ current_prompt = <<Template>>
    /\ result = NoResult
    /\ callFailure = NoFailure
    /\ rounds = << >>
    /\ ptext \in Texts
    /\ pout = NotParsed

\* response_text goes through _parse_final_answer and _parse_tool_code
Parse ==
    /\ pc = "parse"
    /\ ~pout.done
    /\ pout' = [done |-> TRUE, final_answer |-> parse_final_answer(ptext),
                tool_code |-> parse_tool_code(ptext)]
    /\ UNCHANGED <<loopVars, ptext, otherVars>>

NextParser == Parse

SpecParser == InitParser /\ [][NextParser]_vars

-----------------------------------------------------------------------------
(* automated_git_workflow *)

\* What the git commands of one workflow run do: whether the clone (or the
\* existing checkout) is there, whether `git status --porcelain` succeeds and
\* lists changes, and whether add, commit and pull/push succeed
GitEnvs ==
    [clone_ok : BOOLEAN, changes_detected : BOOLEAN, stage_ok : BOOLEAN,
     commit_ok : BOOLEAN, push_ok : BOOLEAN]

\* The workflow's return value: False when a step fails, True when there is
\* nothing to process or when every step succeeded
automated_git_workflow(env) ==
    IF ~env.clone_ok THEN FALSE
    ELSE IF ~env.changes_detected THEN TRUE
    ELSE IF ~env.stage_ok THEN FALSE
    ELSE IF ~env.commit_ok THEN FALSE
    ELSE env.push_ok

-----------------------------------------------------------------------------
(* automated_git_workflow, command by command *)

\* One git command run through run_command, with how it ended
Ran(command, outcome) == [command |-> command, outcome |-> outcome]

\* commit_changes returns True: git commit succeeded, or failed with
\* "nothing to commit" in e.stderr
CommitSucceeded(outcome) == outcome \in {"ok", "nothing"}

InitGit ==
    /\ agent = "builder"
    /\ stubDefault = Response(<<PROSE>>)
    /\ deviations = 0
    /\ pc = "idle"
    /\ i = 0
    /\ failed = << >>
    /\ current_prompt = <<Template>>
    /\ result = NoResult
    /\ callFailure = NoFailure
    /\ rounds = << >>
    /\ ptext = << >>
    /\ pout = NotParsed
    /\ IdleCycle /\ IdleMerge /\ IdleGithub /\ IdleBranch /\ IdleRuns
    /\ git_world \in GitWorlds
    /\ git_step = "clone"
    /\ git_trace = << >>
    /\ git_success = FALSE

notGitVars == <<loopVars, parserVars, cycleVars, mergeVars, githubVars, branchVars, runsVars>>

\* The workflow returns
Finish(value) == git_step' = "done" /\ git_success' = value

\* 1. clone_repository: an existing directory is taken for the clone
CloneRepository ==
    /\ git_step = "clone"
    /\ IF git_world.repo_exists
       THEN git_step' = "detect" /\ UNCHANGED <<git_trace, git_success>>
       ELSE /\ git_trace' = Append(git_trace, Ran("clone", git_world.clone))
            /\ IF git_world.clone = "ok"
               THEN git_step' = "detect" /\ UNCHANGED git_success
               ELSE Finish(FALSE)
    /\ UNCHANGED <<git_world, notGitVars>>

\* 2.-4. apply_changes (nothing), detect_changes, verify_changes (always
\* True): detect_changes gives False for a clean tree and for a git status
\* that failed, and the workflow then returns True
DetectChanges ==
    /\ git_step = "detect"
    /\ git_trace' = Append(git_trace, Ran("status", git_world.status))
    /\ IF git_world.status = "changes"
       THEN git_step' = "stage" /\ UNCHANGED git_success
       ELSE Finish(TRUE)
    /\ UNCHANGED <<git_world, notGitVars>>

\* 5. stage_changes
StageChanges ==
    /\ git_step = "stage"
    /\ git_trace' = Append(git_trace, Ran("add", git_world.add))
    /\ IF git_world.add = "ok"
       THEN git_step' = "commit" /\ UNCHANGED git_success
       ELSE Finish(FALSE)
    /\ UNCHANGED <<git_world, notGitVars>>

\* 6. commit_changes
CommitChanges ==
    /\ git_step = "commit"
    /\ git_trace' = Append(git_trace, Ran("commit", git_world.commit))
    /\ IF CommitSucceeded(git_world.commit)
       THEN git_step' = "push" /\ UNCHANGED git_success
       ELSE Finish(FALSE)
    /\ UNCHANGED <<git_world, notGitVars>>

\* 7. push_changes: git pull, then git push, in one try
PushChanges ==
    /\ git_step = "push"
    /\ IF git_world.pull # "ok"
       THEN /\ git_trace' = Append(git_trace, Ran("pull", git_world.pull))
            /\ Finish(FALSE)
       ELSE /\ git_trace' = git_trace \o <<Ran("pull", "ok"), Ran("push", git_world.push)>>
            /\ Finish(git_world.push = "ok")
    /\ UNCHANGED <<git_world, notGitVars>>

NextGit ==
    \/ CloneRepository
    \/ DetectChanges
    \/ StageChanges
    \/ CommitChanges
    \/ PushChanges

SpecGit == InitGit /\ [][NextGit]_vars

-----------------------------------------------------------------------------
(* run_devops_cycle *)

\* x[k]: the value, KeyError for a dict without the key, TypeError for a
\* value that cannot be subscripted with a string
Subscript(x, k) ==
    IF x.t = "dict"
    THEN IF k \in DOMAIN x.v THEN [exc |-> "", val |-> x.v[k]]
         ELSE [exc |-> "KeyError", val |-> PyNone]
    ELSE [exc |-> "TypeError", val |-> PyNone]

\* x.get(k): None for a missing key, AttributeError for a value that is no dict
Get(x, k) ==
    IF x.t = "dict" THEN [exc |-> "", val |-> DictGet(x, k, PyNone)]
    ELSE [exc |-> "AttributeError", val |-> PyNone]

\* The exception of the first evaluation that raises, "" when none does
FirstExc(excs) ==
    IF \A n \in 1..Len(excs) : excs[n] = "" THEN ""
    ELSE excs[CHOOSE n \in 1..Len(excs) :
                  excs[n] # "" /\ \A m \in 1..(n - 1) : excs[m] = ""]

\* Reading the ticket to announce the feature and derive the branch name:
\* feature_ticket['title'], feature_ticket['feature_id'], title.replace(...)
TicketExc(ticket) ==
    FirstExc(<<Subscript(ticket, "title").exc,
               Subscript(ticket, "feature_id").exc,
               IF Subscript(ticket, "title").val.t = "str" THEN "" ELSE "AttributeError">>)

\* Reading the ticket to write the pull request's title and body:
\* feature_ticket['description'], feature_ticket['id']
PRTextExc(ticket) ==
    FirstExc(<<Subscript(ticket, "description").exc, Subscript(ticket, "id").exc>>)

\* The failure value the cycle returns
CycleFailure(message) == PyDict([status |-> PyStr("failure"), message |-> PyStr(message)])

\* The documents the product manager's model may put in its json_output block
TicketDocuments == {D_TICKET, D_TICKET_ID, D_OBJ_EMPTY, D_ARR}

\* What ProductManagerAgent.process_comment can end with
process_comment_outcomes ==
    {DispatchPM(Response(JsonOutputBlock(d))).result : d \in TicketDocuments}
    \cup {Return(PyDict([status |-> PyStr("failure"),
                         message |-> PyStr(PM_EXHAUSTED_MESSAGE)]))}
    \cup {OnModelFailure("pm", exc) : exc \in {"RetryError", "OtherError"}}

\* The documents the builder's model may put in its final answer
BuilderAnswers == {D_FA, D_FA_PR, D_FA_FAIL, D_FA_NOCHANGE, D_ARR}

\* What BuilderAgent.run can end with
builder_run_outcomes ==
    {OnFinalAnswer("builder", DocumentValue(d)) : d \in BuilderAnswers}
    \cup {OnModelFailure("builder", exc) : exc \in {"RetryError", "OtherError"}}
    \cup {Return(FailurePayload("builder", EXHAUSTED_MESSAGE, << >>))}
    \cup {Raise("AttributeError")}

\* The agent runs that follow the pull request, in program order
DownstreamStages == <<"doc_push", "reviewer", "qa", "impact", "merge", "doc_merge">>

StageAgent(st) ==
    CASE st \in {"doc_push", "doc_merge"} -> "doc"
      [] OTHER -> st

\* ConfidenceMergeControllerAgent(github_api=github_api): the registry reads
\* self.github_api.merge_pr, which mytools.GithubAPI does not define
ConstructorExc(ag) == IF ag = "merge" THEN "AttributeError" ELSE ""

\* What the entry operation of a downstream agent can end with
agent_run_outcomes(ag) ==
    IF ConstructorExc(ag) # "" THEN {Raise(ConstructorExc(ag))}
    ELSE IF ag \in RetryAgents /\ ~RetryDecoratorResolves(ag) THEN {Raise("NameError")}
    ELSE {Return(DocumentValue(D_FA)),
          Return(FailurePayload(ag, EXHAUSTED_MESSAGE, <<PROSE>>))}
         \cup {Raise(exc) : exc \in FailureKinds}

\* x == s for a string s
IsStr(x, s) == x.t = "str" /\ x.v = s

\* if pm_response["status"] == "failure"
PMFailed(pm_response) == IsStr(pm_response.v.status, "failure")

\* A cycle that takes every builder response for a success
BuilderFailed_never(response) == FALSE

\* if builder_response.get("status") != "success"
BuilderFailed(response) == ~IsStr(Get(response, "status").val, "success")

\* if builder_response.get("local_changes_made")
LocalChangesMade(response) == Truthy(Get(response, "local_changes_made").val)

Step(name, input, outcome) == [step |-> name, input |-> input, outcome |-> outcome]

NoInput == [clone_ok |-> TRUE, changes_detected |-> FALSE, stage_ok |-> TRUE,
            commit_ok |-> TRUE, push_ok |-> TRUE]

InitCycle ==
    /\ agent = "builder"
    /\ stubDefault = Response(<<PROSE>>)
    /\ deviations = 0
    /\ pc = "idle"
    /\ i = 0
    /\ failed = << >>
    /\ current_prompt = <<Template>>
    /\ result = NoResult
    /\ callFailure = NoFailure
    /\ rounds = << >>
    /\ ptext = << >>
    /\ pout = NotParsed
    /\ IdleMerge /\ IdleGithub /\ IdleBranch /\ IdleGit /\ IdleRuns
    /\ stage = "init_git"
    /\ cycle_result = NoResult
    /\ feature_ticket = PyNone
    /\ builder_response = PyNone
    /\ hist = << >>
    /\ merge_handed = NotHanded
    /\ cycle_log = << >>

notCycleVars == <<loopVars, parserVars, mergeVars, githubVars, branchVars, gitVars, runsVars>>

\* automated_git_workflow(REPO_URL, LOCAL_REPO_PATH, branch='main')
InitGitWorkflow(env) ==
    LET ok == automated_git_workflow(env)
    IN  /\ stage = "init_git"
        /\ hist' = Append(hist, Step("init_git", env, Return(PyBool(ok))))
        /\ IF ok
           THEN stage' = "pm" /\ UNCHANGED cycle_result
           ELSE /\ stage' = "done"
                /\ cycle_result' = Return(CycleFailure("Git workflow initialization failed."))
        /\ UNCHANGED <<feature_ticket, builder_response, lateVars, notCycleVars>>

\* pm_agent.process_comment(raw_user_comment), the test of its status, and
\* the derivation of the branch name from the ticket
ProductManagerStep(outcome) ==
    /\ stage = "pm"
    /\ hist' = Append(hist, Step("pm", NoInput, outcome))
    /\ IF outcome.kind = "raise"
       THEN stage' = "done" /\ cycle_result' = outcome /\ UNCHANGED feature_ticket
       ELSE IF PMFailed(outcome.payload)
       THEN /\ stage' = "done"
            /\ cycle_result' = Return(CycleFailure(outcome.payload.v.message.v))
            /\ UNCHANGED feature_ticket
       ELSE /\ feature_ticket' = outcome.payload.v.output
            /\ IF TicketExc(outcome.payload.v.output) # ""
               THEN /\ stage' = "done"
                    /\ cycle_result' = Raise(TicketExc(outcome.payload.v.output))
               ELSE stage' = "create_branch" /\ UNCHANGED cycle_result
    /\ UNCHANGED <<builder_response, lateVars, notCycleVars>>

\* github_api.create_branch(feature_branch_name, base='main') in its try
CreateBranch(ok) ==
    /\ stage = "create_branch"
    /\ hist' = Append(hist, Step("create_branch", NoInput,
                                 IF ok THEN Return(PyStr("branch")) ELSE Raise("GithubException")))
    /\ IF ok
       THEN stage' = "checkout" /\ UNCHANGED cycle_result
       ELSE /\ stage' = "done"
            /\ cycle_result' = Return(CycleFailure("Failed to create feature branch"))
    /\ UNCHANGED <<feature_ticket, builder_response, lateVars, notCycleVars>>

\* git fetch / rev-parse / checkout / branch -vv in their try
CheckoutBranch(ok) ==
    /\ stage = "checkout"
    /\ hist' = Append(hist, Step("checkout", NoInput,
                                 IF ok THEN Return(PyNone) ELSE Raise("CalledProcessError")))
    /\ IF ok
       THEN stage' = "builder" /\ UNCHANGED cycle_result
       ELSE /\ stage' = "done"
            /\ cycle_result' = Return(CycleFailure("Failed to checkout local branch"))
    /\ UNCHANGED <<feature_ticket, builder_response, lateVars, notCycleVars>>

\* builder.run(feature_ticket) and the two tests of its response
BuilderStep(outcome) ==
    /\ stage = "builder"
    /\ hist' = Append(hist, Step("builder", NoInput, outcome))
    /\ IF outcome.kind = "raise"
       THEN stage' = "done" /\ cycle_result' = outcome /\ UNCHANGED builder_response
       ELSE /\ builder_response' = outcome.payload
            /\ IF Get(outcome.payload, "status").exc # ""
               THEN /\ stage' = "done"
                    /\ cycle_result' = Raise(Get(outcome.payload, "status").exc)
               ELSE IF BuilderFailed(outcome.payload)
               THEN stage' = "done" /\ cycle_result' = outcome
               ELSE IF ~LocalChangesMade(outcome.payload)
               THEN /\ stage' = "done"
                    /\ cycle_result' = Return(PyDict([status |-> PyStr("success"),
                            message |-> PyStr("No changes made by Builder Agent.")]))
               ELSE stage' = "commit_push" /\ UNCHANGED cycle_result
    /\ UNCHANGED <<feature_ticket, lateVars, notCycleVars>>

\* automated_git_workflow(..., branch=feature_branch_name, ...) and, when it
\* succeeded, the pull request's title and body
CommitPush(env) ==
    LET ok == automated_git_workflow(env)
    IN  /\ stage = "commit_push"
        /\ hist' = Append(hist, Step("commit_push", env, Return(PyBool(ok))))
        /\ IF ~ok
           THEN /\ stage' = "done"
                /\ cycle_result' = Return(CycleFailure("Git workflow commit/push failed."))
           ELSE IF PRTextExc(feature_ticket) # ""
           THEN stage' = "done" /\ cycle_result' = Raise(PRTextExc(feature_ticket))
           ELSE stage' = "create_pr" /\ UNCHANGED cycle_result
        /\ UNCHANGED <<feature_ticket, builder_response, lateVars, notCycleVars>>

\* github_api.create_pr(...) in its try
CreatePullRequest(ok) ==
    /\ stage = "create_pr"
    /\ hist' = Append(hist, Step("create_pr", NoInput,
                                 IF ok
                                 THEN Return(PyDict([pr_url |-> PyStr("u"),
                                                     pr_number |-> PyInt(1)]))
                                 ELSE Raise("ValueError")))
    /\ IF ok
       THEN stage' = DownstreamStages[1] /\ UNCHANGED cycle_result
       ELSE stage' = "done" /\ cycle_result' = Return(CycleFailure("Failed to create PR"))
    /\ UNCHANGED <<feature_ticket, builder_response, lateVars, notCycleVars>>

\* The hist entry of a step
StepOf(steps, name) ==
    IF \E n \in 1..Len(steps) : steps[n].step = name
    THEN steps[CHOOSE n \in 1..Len(steps) :
                   steps[n].step = name /\ \A m \in (n + 1)..Len(steps) : steps[m].step # name]
    ELSE Step(name, NoInput, NoResult)

\* What an agent's entry operation returned in this cycle
ResponseOf(steps, name) == StepOf(steps, name).outcome.payload

\* test_results, review_feedback, qa_report and risk_score as the cycle hands
\* them to run_merge_decision; risk_score in hundredths
merge_controller_inputs(builder, reviewer, qa, impact) ==
    [handed |-> TRUE,
     test_results |-> PyDict([success |-> PyBool(TRUE)]),
     review_feedback |-> PyDict([review_summary |-> PyStr("Approved")]),
     qa_report |-> PyDict([ui_bugs_detected |-> PyBool(FALSE)]),
     risk_score |-> 250]

\* The record run_devops_cycle inserts into orchestration_cycles
CycleRecord(ticket, steps) ==
    [feature_ticket_id |-> Subscript(ticket, "id").val,
     status |-> "completed_full_cycle",
     builder_response |-> ResponseOf(steps, "builder"),
     reviewer_response |-> ResponseOf(steps, "reviewer"),
     qa_response |-> ResponseOf(steps, "qa"),
     impact_analyzer_response |-> ResponseOf(steps, "impact"),
     merge_controller_response |-> ResponseOf(steps, "merge"),
     auto_documentation_response |-> ResponseOf(steps, "doc_merge")]

\* A cycle that writes its record after every agent run, however it ended
LogsCycle_always(n, outcome) == TRUE

\* insert_log is the statement after the last agent run: it is reached only
\* when that run returned
LogsCycle(n, outcome) == n = Len(DownstreamStages) /\ outcome.kind = "return"

\* One of the agent runs after the pull request: the agent is constructed and
\* its entry operation called, outside any try; the merge controller is
\* handed the cycle's inputs; after the last run the cycle is logged and
\* run_devops_cycle falls off its end
AgentStage(outcome) ==
    /\ \E n \in 1..Len(DownstreamStages) :
          /\ stage = DownstreamStages[n]
          /\ outcome \in agent_run_outcomes(StageAgent(stage))
          /\ hist' = Append(hist, Step(stage, NoInput, outcome))
          /\ merge_handed' =
                IF stage = "merge" /\ ConstructorExc(StageAgent(stage)) = ""
                THEN merge_controller_inputs(ResponseOf(hist, "builder"),
                                             ResponseOf(hist, "reviewer"),
                                             ResponseOf(hist, "qa"),
                                             ResponseOf(hist, "impact"))
                ELSE merge_handed
          /\ IF LogsCycle(n, outcome)
             THEN IF Subscript(feature_ticket, "id").exc # ""
                  THEN /\ stage' = "done"
                       /\ cycle_result' = Raise(Subscript(feature_ticket, "id").exc)
                       /\ UNCHANGED cycle_log
                  ELSE /\ stage' = "done"
                       /\ cycle_result' = Return(PyNone)
                       /\ cycle_log' = Append(cycle_log, CycleRecord(feature_ticket, hist'))
             ELSE /\ UNCHANGED cycle_log
                  /\ IF outcome.kind = "raise"
                     THEN stage' = "done" /\ cycle_result' = outcome
                     ELSE stage' = DownstreamStages[n + 1] /\ UNCHANGED cycle_result
    /\ UNCHANGED <<feature_ticket, builder_response, notCycleVars>>

AgentRunResults == UNION {agent_run_outcomes(ag) : ag \in ToolAgents}

NextCycle ==
    \/ \E env \in GitEnvs : InitGitWorkflow(env)
    \/ \E outcome \in process_comment_outcomes : ProductManagerStep(outcome)
    \/ \E ok \in BOOLEAN : CreateBranch(ok)
    \/ \E ok \in BOOLEAN : CheckoutBranch(ok)
    \/ \E outcome \in builder_run_outcomes : BuilderStep(outcome)
    \/ \E env \in GitEnvs : CommitPush(env)
    \/ \E ok \in BOOLEAN : CreatePullRequest(ok)
    \/ \E outcome \in AgentRunResults : AgentStage(outcome)

SpecCycle == InitCycle /\ [][NextCycle]_vars

-----------------------------------------------------------------------------
(* What the cycle hands to the merge controller: the statements between the
   construction of the controller and the call of run_merge_decision, as a
   function of the upstream results *)

\* What an upstream agent's entry operation may have returned
UpstreamResults(ag) ==
    {DocumentValue(D_FA),
     FailurePayload(ag, EXHAUSTED_MESSAGE, <<PROSE>>),
     FailurePayload(ag, QUOTA_MESSAGE, << >>)}

InitHandOver ==
    /\ agent = "merge"
    /\ stubDefault = Response(<<PROSE>>)
    /\ deviations = 0
    /\ pc = "idle"
    /\ i = 0
    /\ failed = << >>
    /\ current_prompt = <<Template>>
    /\ result = NoResult
    /\ callFailure = NoFailure
    /\ rounds = << >>
    /\ ptext = << >>
    /\ pout = NotParsed
    /\ IdleMerge /\ IdleGithub /\ IdleBranch /\ IdleGit /\ IdleRuns
    /\ stage = "merge"
    /\ cycle_result = NoResult
    /\ feature_ticket = DocumentValue(D_TICKET_ID)
    /\ \E b \in UpstreamResults("builder"), r \in UpstreamResults("reviewer"),
          q \in UpstreamResults("qa"), im \in UpstreamResults("impact") :
          /\ builder_response = b
          /\ hist = <<Step("builder", NoInput, Return(b)), Step("reviewer", NoInput, Return(r)),
                      Step("qa", NoInput, Return(q)), Step("impact", NoInput, Return(im))>>
    /\ merge_handed = NotHanded
    /\ cycle_log = << >>

\* test_results = ...; review_feedback = ...; qa_report = ...; risk_score = ...;
\* merge_controller.run_merge_decision(...)
HandOver ==
    /\ stage = "merge"
    /\ ~merge_handed.handed
    /\ merge_handed' = merge_controller_inputs(ResponseOf(hist, "builder"),
                                               ResponseOf(hist, "reviewer"),
                                               ResponseOf(hist, "qa"),
                                               ResponseOf(hist, "impact"))
    /\ UNCHANGED <<stage, cycle_result, feature_ticket, builder_response, hist, cycle_log,
                   notCycleVars>>

NextHandOver == HandOver

SpecHandOver == InitHandOver /\ [][NextHandOver]_vars

-----------------------------------------------------------------------------
(* The merge controller's confidence rule *)

\* risk_score runs over 0..10 in steps of a hundredth; the model holds it in
\* hundredths, and holds confidence in ten-thousandths, so that the rule's
\* arithmetic is exact
RiskScores == 0..(10 * 100)

MergeInputs ==
    [tests_pass : {0, 1}, review_score : {0, 1}, qa_pass : {0, 1}, risk_score : RiskScores]

\* A rule with the weights of tests and review exchanged
confidence_swapped(tests_pass, review_score, qa_pass, risk_score) ==
    (tests_pass * 3000) + (review_score * 4000) + (qa_pass * 2000) - (risk_score * 3)

\* A rule that subtracts the whole of risk_score / 10
confidence_fullrisk(tests_pass, review_score, qa_pass, risk_score) ==
    (tests_pass * 4000) + (review_score * 3000) + (qa_pass * 2000) - (risk_score * 10)

\* confidence = (tests_pass * 0.4) + (review_score * 0.3) + (qa_pass * 0.2)
\*              - ((risk_score / 10) * 0.3)
confidence(tests_pass, review_score, qa_pass, risk_score) ==
    (tests_pass * 4000) + (review_score * 3000) + (qa_pass * 2000) - (risk_score * 3)

\* A rule that merges from 0.80 on
should_merge_lenient(c) == c > 8000

\* If confidence > 0.85, then merge
should_merge(c) == c > 8500

InitMerge ==
    /\ agent = "merge"
    /\ stubDefault = Response(<<PROSE>>)
    /\ deviations = 0
    /\ pc = "idle"
    /\ i = 0
    /\ failed = << >>
    /\ current_prompt = <<Template>>
    /\ result = NoResult
    /\ callFailure = NoFailure
    /\ rounds = << >>
    /\ ptext = << >>
    /\ pout = NotParsed
    /\ IdleCycle /\ IdleGithub /\ IdleBranch /\ IdleGit /\ IdleRuns
    /\ merge_inputs \in MergeInputs
    /\ merge_decision = [done |-> FALSE, confidence |-> 0, merge |-> FALSE]

\* Steps 2 and 3 of the prompt: compute the confidence, decide
Decide ==
    LET c == confidence(merge_inputs.tests_pass, merge_inputs.review_score,
                        merge_inputs.qa_pass, merge_inputs.risk_score)
    IN  /\ ~merge_decision.done
        /\ merge_decision' = [done |-> TRUE, confidence |-> c, merge |-> should_merge(c)]
        /\ UNCHANGED <<merge_inputs, loopVars, parserVars, cycleVars, githubVars, branchVars,
                       gitVars, runsVars>>

NextMerge == Decide

SpecMerge == InitMerge /\ [][NextMerge]_vars

-----------------------------------------------------------------------------
(* GithubAPI.create_pr and create_branch on a repository *)

HeadNames == {"feature-a", "feature-b"}

BaseNames == {"main", "dev"}

\* What a call gave: the pair {pr_url, pr_number}, or an exception
Pair(pr) == [kind |-> "return", pr_url |-> <<"pull", pr.number>>, pr_number |-> pr.number]

Raised(exc) == [kind |-> exc, pr_url |-> << >>, pr_number |-> 0]

\* A create_pr that never finds an open pull request
existing_prs_none(prs, head) == {}

\* self.repo.get_pulls(state="open", head=f"{owner}:{head}")
existing_prs(prs, head) == {pr \in prs : pr.open /\ pr.head = head}

\* existing_prs[0]: the list comes newest first
First(prs) == CHOOSE pr \in prs : \A other \in prs : other.number <= pr.number

\* create_pr(title, body, head, base): the repository's pull requests after
\* the call, and what the call gave. create_ok: whether the host accepts
\* create_pull.
create_pr(prs, branches, head, base, create_ok) ==
    IF existing_prs(prs, head) # {}
    THEN [pulls |-> prs, outcome |-> Pair(First(existing_prs(prs, head)))]
    ELSE IF head \notin branches
    THEN [pulls |-> prs, outcome |-> Raised("ValueError")]
    ELSE IF ~create_ok
    THEN [pulls |-> prs, outcome |-> Raised("GithubException")]
    ELSE LET pr == [number |-> Cardinality(prs) + 1, head |-> head, base |-> base,
                    open |-> TRUE]
         IN  [pulls |-> prs \cup {pr}, outcome |-> Pair(pr)]

Event(op, head, outcome) == [op |-> op, head |-> head, outcome |-> outcome]

InitGithub ==
    /\ agent = "builder"
    /\ stubDefault = Response(<<PROSE>>)
    /\ deviations = 0
    /\ pc = "idle"
    /\ i = 0
    /\ failed = << >>
    /\ current_prompt = <<Template>>
    /\ result = NoResult
    /\ callFailure = NoFailure
    /\ rounds = << >>
    /\ ptext = << >>
    /\ pout = NotParsed
    /\ IdleCycle /\ IdleMerge /\ IdleBranch /\ IdleGit /\ IdleRuns
    /\ pulls = {}
    /\ heads \in SUBSET HeadNames
    /\ calls = << >>

notGithubVars == <<loopVars, parserVars, cycleVars, mergeVars, branchVars, gitVars, runsVars>>

\* github_api.create_pr(title, body, head, base)
CreatePR(head, base, create_ok) ==
    LET r == create_pr(pulls, heads, head, base, create_ok)
    IN  /\ Len(calls) < MaxEvents
        /\ Cardinality(pulls) < MaxPulls
        /\ pulls' = r.pulls
        /\ calls' = Append(calls, Event("create_pr", head, r.outcome))
        /\ UNCHANGED <<heads, notGithubVars>>

\* github_api.create_branch(branch_name, base): an existing ref is kept
CreateRef(head) ==
    /\ Len(calls) < MaxEvents
    /\ heads' = heads \cup {head}
    /\ calls' = Append(calls, Event("create_branch", head, Raised("")))
    /\ UNCHANGED <<pulls, notGithubVars>>

\* Somebody merges or closes an open pull request on the host
ClosePR(number) ==
    /\ Len(calls) < MaxEvents
    /\ \E pr \in pulls :
          /\ pr.number = number
          /\ pr.open
          /\ pulls' = (pulls \ {pr}) \cup {[pr EXCEPT !.open = FALSE]}
          /\ calls' = Append(calls, Event("close", pr.head, Raised("")))
    /\ UNCHANGED <<heads, notGithubVars>>

NextGithub ==
    \/ \E head \in HeadNames, base \in BaseNames, create_ok \in BOOLEAN :
          CreatePR(head, base, create_ok)
    \/ \E head \in HeadNames : CreateRef(head)
    \/ \E number \in 1..MaxPulls : ClosePR(number)

SpecGithub == InitGithub /\ [][NextGithub]_vars

-----------------------------------------------------------------------------
(* The feature branch name. A string is a sequence of characters; a character
   outside ASCII is written by its code point. *)

UpperCase == <<"A", "B", "C", "D", "E", "F", "G", "H", "I", "J", "K", "L", "M">> \o
             <<"N", "O", "P", "Q", "R", "S", "T", "U", "V", "W", "X", "Y", "Z">>

LowerCase == <<"a", "b", "c", "d", "e", "f", "g", "h", "i", "j", "k", "l", "m">> \o
             <<"n", "o", "p", "q", "r", "s", "t", "u", "v", "w", "x", "y", "z">>

Digits == {"0", "1", "2", "3", "4", "5", "6", "7", "8", "9"}

Range(seq) == {seq[n] : n \in 1..Len(seq)}

\* feature_branch_name[:100]
branch_name_limit == 100

RECURSIVE Concat(_)
Concat(seqs) == IF seqs = << >> THEN << >> ELSE Head(seqs) \o Concat(Tail(seqs))

\* .replace(' ', '-')
replace(str, old, new) == [n \in 1..Len(str) |-> IF str[n] = old THEN new ELSE str[n]]

\* str.lower() of one character: the characters it becomes. U+0130 becomes
\* two characters.
lower_char(c) ==
    IF c \in Range(UpperCase)
    THEN <<LowerCase[CHOOSE n \in 1..Len(UpperCase) : UpperCase[n] = c]>>
    ELSE IF c = "U+00C9" THEN <<"U+00E9">>
    ELSE IF c = "U+0130" THEN <<"i", "U+0307">>
    ELSE <<c>>

\* A lower() that leaves every character as it is
lower_keeps(str) == str

\* .lower()
lower(str) == Concat([n \in 1..Len(str) |-> lower_char(str[n])])

\* The class [a-zA-Z0-9\-_]
Allowed == Range(UpperCase) \cup Range(LowerCase) \cup Digits \cup {"-", "_"}

\* A substitution that leaves every character as it is
re_sub_keeps(str) == str

\* re.sub(r'[^a-zA-Z0-9\-_]', '-', feature_branch_name)
re_sub(str) == [n \in 1..Len(str) |-> IF str[n] \in Allowed THEN str[n] ELSE "-"]

\* A slice that keeps the whole string
Slice_whole(str, limit) == str

\* feature_branch_name[:limit]
Slice(str, limit) == IF Len(str) <= limit THEN str ELSE SubSeq(str, 1, limit)

\* f"feature/{feature_id}-{title.replace(' ', '-').lower()}"
format_branch_name(id, title) ==
    <<"f", "e", "a", "t", "u", "r", "e", "/">> \o id \o <<"-">> \o lower(replace(title, " ", "-"))

derive_branch_name(id, title) ==
    Slice(re_sub(format_branch_name(id, title)), branch_name_limit)

RECURSIVE Repeat(_, _)
Repeat(c, n) == IF n = 0 THEN << >> ELSE <<c>> \o Repeat(c, n - 1)

F101 == <<"F", "1", "0", "1">>

\* An identifier that brings the name to one character short of the limit
\* before the title begins
LongId == Repeat("x", branch_name_limit - 10)

FeatureIds == {F101, <<"F", " ", "1">>, LongId}

LightDarkTitle ==
    <<"I", "m", "p", "l", "e", "m", "e", "n", "t", " ", "L", "i", "g", "h", "t", "/">> \o
    <<"D", "a", "r", "k", " ", "M", "o", "d", "e", " ", "T", "o", "g", "g", "l", "e", "!">>

TitleChars == {"a", "B", "7", " ", "-", "_", "/", "!", "U+00C9", "U+0130"}

RECURSIVE SeqsUpTo(_, _)
SeqsUpTo(S, n) ==
    IF n = 0 THEN {<< >>}
    ELSE LET shorter == SeqsUpTo(S, n - 1)
         IN  shorter \cup {Append(str, c) : str \in shorter, c \in S}

Titles == SeqsUpTo(TitleChars, MaxTitleLen) \cup {LightDarkTitle}

InitBranch ==
    /\ agent = "builder"
    /\ stubDefault = Response(<<PROSE>>)
    /\ deviations = 0
    /\ pc = "idle"
    /\ i = 0
    /\ failed = << >>
    /\ current_prompt = <<Template>>
    /\ result = NoResult
    /\ callFailure = NoFailure
    /\ rounds = << >>
    /\ ptext = << >>
    /\ pout = NotParsed
    /\ IdleCycle /\ IdleMerge /\ IdleGithub /\ IdleGit /\ IdleRuns
    /\ ticket_id \in FeatureIds
    /\ ticket_title \in Titles
    /\ feature_branch_name = << >>

\* The three statements that determine the feature branch name
DeriveBranchName ==
    /\ feature_branch_name = << >>
    /\ feature_branch_name' = derive_branch_name(ticket_id, ticket_title)
    /\ UNCHANGED <<ticket_id, ticket_title, loopVars, parserVars, cycleVars, mergeVars,
                   githubVars, gitVars, runsVars>>

NextBranch == DeriveBranchName

SpecBranch == InitBranch /\ [][NextBranch]_vars

-----------------------------------------------------------------------------
(* Vocabulary of the properties below *)

\* Equality of two Python values
SameValue(x, y) == x.t = y.t /\ x.v = y.v

\* text holds a block between open and close whose content JSON-decodes
HasDecodableBlock(open, close, text) ==
    LET m == re_search(open, close, text)
    IN  m.matched /\ json_loads(strip(m.group1)).ok

\* The value the first block between open and close decodes to
BlockValue(open, close, text) == json_loads(strip(re_search(open, close, text).group1)).val

\* The text of a response as the agents mean to read it: "" when it has no parts
TextOf(response) == IF response.parts THEN response.text ELSE << >>

\* The response names, in a decodable tool-code block, a tool ag registers
HasRegisteredToolCall(ag, response) ==
    /\ HasDecodableBlock(TC_OPEN, TC_CLOSE, TextOf(response))
    /\ LET val == BlockValue(TC_OPEN, TC_CLOSE, TextOf(response))
       IN  /\ val.t = "dict"
           /\ "tool_name" \in DOMAIN val.v
           /\ val.v.tool_name.t = "str"
           /\ val.v.tool_name.v \in tools(ag)

\* Text in which the parser recognizes nothing: the response has textual
\* content, and no final-answer or tool-code block of it JSON-decodes
Unrecognized(response) ==
    /\ response.parts
    /\ ~HasDecodableBlock(FA_OPEN, FA_CLOSE, response.text)
    /\ ~HasDecodableBlock(TC_OPEN, TC_CLOSE, response.text)

\* The run returned a payload whose status is "failure"
ReturnedFailure ==
    /\ result.kind = "return"
    /\ result.payload.t = "dict"
    /\ "status" \in DOMAIN result.payload.v
    /\ result.payload.v.status.t = "str"
    /\ result.payload.v.status.v = "failure"

\* The message of the returned payload
ReturnedMessage == result.payload.v.message.v

-----------------------------------------------------------------------------
(* C1 *)

\* C1 - Iteration bound: in every tool-using agent loop (builder, reviewer,
\* QA, impact analyzer, merge controller, documentation), a run whose model
\* calls all succeed with unrecognized text makes exactly max_iterations (10)
\* rounds and then returns a result with status "failure": it never raises,
\* never ends earlier and never makes an 11th round.
C1_IterationBound ==
    (/\ agent \in ToolAgents
     /\ callFailure = NoFailure
     /\ \A n \in 1..Len(rounds) : Unrecognized(rounds[n].response))
    => /\ Len(rounds) <= 10
       /\ result.kind # "raise"
       /\ pc = "done" => (Len(rounds) = 10 /\ ReturnedFailure)
       /\ Len(rounds) = 10 => pc = "done"

-----------------------------------------------------------------------------
(* C2 *)

\* The payload a run is expected to return for a decoded final answer: the
\* value itself, the builder's without the keys pr_url and pr_number
ExpectedFinal(ag, val) ==
    IF ag = "builder" /\ val.t = "dict"
    THEN DictDel(DictDel(val, "pr_url"), "pr_number")
    ELSE val

\* C2 - Final answer first: every round whose response holds a final-answer
\* block that JSON-decodes (to any value, an empty object included) is the
\* last round of the run, ends it by returning the decoded payload, and
\* executes no tool.
C2_FinalAnswerFirst ==
    \A n \in 1..Len(rounds) :
        (/\ agent \in ToolAgents
         /\ rounds[n].response.parts
         /\ HasDecodableBlock(FA_OPEN, FA_CLOSE, rounds[n].response.text))
        => /\ n = Len(rounds)
           /\ rounds[n].event = "final"
           /\ rounds[n].tool = ""
           /\ pc = "done"
           /\ result.kind = "return"
           /\ SameValue(result.payload,
                        ExpectedFinal(agent, BlockValue(FA_OPEN, FA_CLOSE,
                                                        rounds[n].response.text)))

-----------------------------------------------------------------------------
(* C3 *)

\* C3 - Model-failure hard stop in the builder loop: the step in which the
\* model call of a round fails for good (rate-limited through all retries, or
\* any other failure) ends BuilderAgent.run with the payload {status: failure,
\* message, local_changes_made: false}, whatever the round; it runs no tool
\* and appends no segment, and nothing happens after it.
C3_BuilderModelFailureHardStop ==
    [][agent = "builder" =>
         /\ (callFailure = NoFailure /\ callFailure' # NoFailure)
            => /\ pc' = "done"
               /\ result'.kind = "return"
               /\ result'.payload.t = "dict"
               /\ DOMAIN result'.payload.v = {"status", "message", "local_changes_made"}
               /\ result'.payload.v.status = PyStr("failure")
               /\ result'.payload.v.local_changes_made = PyBool(FALSE)
               /\ current_prompt' = current_prompt
               /\ rounds' = rounds
               /\ i' = i
         /\ callFailure # NoFailure => UNCHANGED vars]_vars

\* A builder run that the model failure of a later round ended
C3_Witness ==
    /\ agent = "builder"
    /\ pc = "done"
    /\ callFailure.surfaced = "RetryError"
    /\ i = 9
    /\ \E n \in 1..Len(rounds) : rounds[n].event = "tool_ok"
    /\ ReturnedFailure

-----------------------------------------------------------------------------
(* C4 *)

AllRateLimited == \A n \in 1..Len(failed) : failed[n] = "ResourceExhausted"

\* C4 - Retry bound: a call through the retryable model caller whose
\* invocations all fail rate-limited makes exactly 3 attempts and then
\* reports failure: no call makes a 4th attempt, and none reports failure
\* after fewer than 3 rate-limited attempts.
C4_RetryBound ==
    agent \notin DirectAgents =>
        /\ Len(failed) <= 3
        /\ (AllRateLimited /\ Len(failed) = 3)
           => (pc = "done" /\ callFailure.surfaced = "RetryError")
        /\ (AllRateLimited /\ Len(failed) < 3) => callFailure = NoFailure

\* The caller gave up after three rate-limited attempts
C4_Witness ==
    /\ agent \in {"builder", "pm"}
    /\ failed = <<"ResourceExhausted", "ResourceExhausted", "ResourceExhausted">>
    /\ callFailure.surfaced = "RetryError"
    /\ pc = "done"

-----------------------------------------------------------------------------
(* C5 *)

\* C5 - Distinguishable quota failure: when the retryable caller has used up
\* its attempts on rate-limited failures, the builder's dedicated handler
\* catches what it surfaces, and the failure message is the quota-exhaustion
\* diagnostic, not the unexpected-error one.
C5_QuotaDiagnostic ==
    (agent = "builder" /\ AllRateLimited /\ Len(failed) = 3)
    => (ReturnedFailure /\ ReturnedMessage = QUOTA_MESSAGE)

-----------------------------------------------------------------------------
(* C6 *)

\* C6 - No retry for other failures: through the retryable caller, an
\* invocation that fails with a kind other than rate-limited is the last
\* attempt of its call, and that failure is what reaches the agent loop; so a
\* first attempt failing so makes exactly 1 attempt, and a rate-limited
\* attempt followed by another kind stops at that attempt.
C6_NoRetryForOtherFailures ==
    agent \notin DirectAgents =>
        \A n \in 1..Len(failed) :
            failed[n] # "ResourceExhausted"
            => /\ n = Len(failed)
               /\ pc = "done"
               /\ callFailure = [surfaced |-> failed[n], last |-> failed[n]]

\* A rate-limited attempt, then one that failed otherwise and ended the call
C6_Witness ==
    /\ agent = "builder"
    /\ failed = <<"ResourceExhausted", "OtherError">>
    /\ pc = "done"
    /\ callFailure.surfaced = "OtherError"

\* The first attempt failed otherwise: one attempt in all
C6_WitnessFirst ==
    /\ agent = "builder"
    /\ failed = <<"OtherError">>
    /\ pc = "done"

-----------------------------------------------------------------------------
(* C7 *)

\* The tool a registered tool call names
ToolNamed(response) == BlockValue(TC_OPEN, TC_CLOSE, TextOf(response)).v.tool_name.v

\* The response calls a registered tool with parameters that cannot be bound
\* to it, and holds no final answer that would end the run first
UnbindableToolCall(ag, response) ==
    /\ HasRegisteredToolCall(ag, response)
    /\ ~Truthy(parse_final_answer(TextOf(response)))
    /\ ~Binds(ToolNamed(response), parse_tool_code(TextOf(response)).tool_params)

\* C7 - Tool failure does not abort the loop: a round in which a registered
\* tool is invoked and raises (a call whose parameters cannot be bound is such
\* a round) appends exactly one "Tool Error" segment naming that tool, and the
\* loop goes on to the next round, or to the iteration-exhaustion failure
\* result after the last one; the run does not end with an exception.
C7_ToolFailureDoesNotAbort ==
    [][(agent \in ToolAgents /\ Len(rounds') = Len(rounds) + 1) =>
         LET r == rounds'[Len(rounds')]
         IN  /\ UnbindableToolCall(agent, r.response) => r.event = "tool_error"
             /\ r.event = "tool_error" =>
                  /\ r.tool \in tools(agent)
                  /\ Len(current_prompt') = Len(current_prompt) + 1
                  /\ SubSeq(current_prompt', 1, Len(current_prompt)) = current_prompt
                  /\ current_prompt'[Len(current_prompt')].kind = "Tool Error"
                  /\ current_prompt'[Len(current_prompt')].tool = r.tool
                  /\ i' = i + 1
                  /\ result'.kind # "raise"
                  /\ IF i + 1 < 10
                     THEN pc' = "model" /\ result' = NoResult
                     ELSE pc' = "done" /\ ReturnedFailure']_vars

\* A call with unbindable parameters was turned into a tool-error segment and
\* the loop is ready for its next round
C7_Witness ==
    /\ agent \in ToolAgents
    /\ Len(rounds) > 1
    /\ UnbindableToolCall(agent, rounds[Len(rounds)].response)
    /\ rounds[Len(rounds)].event = "tool_error"
    /\ current_prompt[Len(current_prompt)].kind = "Tool Error"
    /\ pc = "model"

-----------------------------------------------------------------------------
(* C8 *)

\* The round's response is a valid call of a registered tool, and the tool
\* did not fail
SuccessfulToolRound(ag, r) ==
    /\ r.response.parts
    /\ ~HasDecodableBlock(FA_OPEN, FA_CLOSE, r.response.text)
    /\ HasRegisteredToolCall(ag, r.response)
    /\ r.event # "tool_error"

\* The response holds a final answer that is a non-empty JSON object
NonEmptyFinalAnswer(response) ==
    /\ response.parts
    /\ HasDecodableBlock(FA_OPEN, FA_CLOSE, response.text)
    /\ BlockValue(FA_OPEN, FA_CLOSE, response.text).t = "dict"
    /\ DOMAIN BlockValue(FA_OPEN, FA_CLOSE, response.text).v # {}

\* The rounds so far are k successful tool calls and then a final answer
ToolsThenAnswer ==
    /\ agent \in ToolAgents
    /\ Len(rounds) >= 1
    /\ \A n \in 1..(Len(rounds) - 1) : SuccessfulToolRound(agent, rounds[n])
    /\ NonEmptyFinalAnswer(rounds[Len(rounds)].response)

\* k tool invocations, one per round in response order, and k "Tool Output"
\* segments
ExactlyKToolRounds ==
    LET k == Len(rounds) - 1
    IN  /\ k < 10
        /\ i = k
        /\ Len(current_prompt) = k + 1
        /\ \A n \in 1..k :
              /\ rounds[n].event = "tool_ok"
              /\ rounds[n].tool = ToolNamed(rounds[n].response)
              /\ current_prompt[n + 1].kind = "Tool Output"
              /\ current_prompt[n + 1].tool = rounds[n].tool
        /\ rounds[k + 1].event = "final"
        /\ rounds[k + 1].tool = ""
        /\ pc = "done"
        /\ result.kind = "return"

\* C8 - Tool-then-answer (as first stated): after k < max_iterations
\* successful calls of registered tools and then a non-empty final answer, the
\* loop has run exactly k tool invocations, appended exactly k "Tool Output"
\* segments, and returned the final-answer object as decoded.
C8_ToolThenAnswer_Original ==
    ToolsThenAnswer =>
        /\ ExactlyKToolRounds
        /\ SameValue(result.payload,
                     BlockValue(FA_OPEN, FA_CLOSE, rounds[Len(rounds)].response.text))

\* C8 - Tool-then-answer: after k < max_iterations successful calls of
\* registered tools and then a non-empty final answer, the loop has run
\* exactly k tool invocations, appended exactly k "Tool Output" segments, and
\* returned the final-answer object in round k+1; BuilderAgent.run returns it
\* without its pr_url and pr_number keys.
C8_ToolThenAnswer ==
    ToolsThenAnswer =>
        /\ ExactlyKToolRounds
        /\ SameValue(result.payload,
                     ExpectedFinal(agent, BlockValue(FA_OPEN, FA_CLOSE,
                                                     rounds[Len(rounds)].response.text)))

\* The builder made nine tool calls and then answered with pull-request keys
C8_Witness ==
    /\ agent = "builder"
    /\ Len(rounds) = 10
    /\ ToolsThenAnswer
    /\ rounds[10].response = Response(FinalAnswerBlock(D_FA_PR))
    /\ result.kind = "return"
    /\ "pr_url" \notin DOMAIN result.payload.v

-----------------------------------------------------------------------------
(* C9 *)

\* C9 - Parser totality: for every response text, the tool-invocation
\* extractor and the final-answer extractor return a decoded value or
\* "absent" and never raise, also when the block content is valid JSON that
\* is not an object.
C9_ParserTotality ==
    pout.done => pout.tool_code.exc = ""

-----------------------------------------------------------------------------
(* C10 *)

\* The response has no final answer, and its tool-code block decodes to an
\* object whose tool_name is missing or is not a key of ag's registry
UnknownToolCall(ag, response) ==
    /\ response.parts
    /\ ~HasDecodableBlock(FA_OPEN, FA_CLOSE, response.text)
    /\ HasDecodableBlock(TC_OPEN, TC_CLOSE, response.text)
    /\ BlockValue(TC_OPEN, TC_CLOSE, response.text).t = "dict"
    /\ ~HasRegisteredToolCall(ag, response)

\* C10 - Unknown tool name: a round whose response has no final answer and
\* whose tool-call block decodes to a tool_name that is missing or not a key
\* of the agent's registry invokes no capability, appends exactly one
\* assistant segment holding the raw response, and lets the loop continue.
C10_UnknownToolName ==
    \A n \in 1..Len(rounds) :
        (agent \in ToolAgents /\ UnknownToolCall(agent, rounds[n].response))
        => /\ rounds[n].event = "text"
           /\ rounds[n].tool = ""
           /\ i >= n
           /\ Len(current_prompt) > n
           /\ current_prompt[n + 1] = AssistantSegment(rounds[n].response.text)
           /\ result.kind # "raise" \/ callFailure # NoFailure

-----------------------------------------------------------------------------
(* C11 *)

\* s is a prefix of t
IsPrefix(s, t) == Len(s) <= Len(t) /\ SubSeq(t, 1, Len(s)) = s

\* C11 - Append-only conversation: in every step of an agent-loop run the
\* prompt before the step is a prefix of the prompt after it, so the prompt
\* submitted in round n+1 extends the one submitted in round n, the rendered
\* template stays its first segment, and the prompt never gets shorter.
C11_AppendOnlyConversation ==
    [][/\ IsPrefix(current_prompt, current_prompt')
       /\ current_prompt'[1] = Template
       /\ Len(current_prompt') >= Len(current_prompt)]_vars

\* A run in its fourth round: three segments were appended to the template
C11_Witness ==
    /\ pc = "model"
    /\ Len(current_prompt) = 4
    /\ i = 3
    /\ Len(rounds) = 3

-----------------------------------------------------------------------------
(* C12 *)

\* C12 - Agent entry points never raise: for each of the seven agents the
\* public entry operation ends by returning a result value, never by raising,
\* on every failure path: rate-limited or other model failure, empty model
\* content, malformed output, unknown tool name, tool failure, exhaustion.
\* Stated here for the runs in which no response text made the round raise,
\* which leaves the model-failure, tool-failure and exhaustion paths.
C12_EntryPointsNeverRaise ==
    (pc = "done" /\ \A n \in 1..Len(rounds) : rounds[n].event # "raise")
    => result.kind = "return"

-----------------------------------------------------------------------------
(* C13 *)

\* The steps of the cycle that run an agent's entry operation
AgentSteps == {"pm", "builder"} \cup {DownstreamStages[n] : n \in 1..Len(DownstreamStages)}

\* C13 - No exception escapes a cycle: whatever JSON object the product
\* manager decoded, whatever each agent run returned and however branch
\* creation, PR creation and the git workflows went, run_devops_cycle ends by
\* returning, never by propagating an exception. Stated for the cycles in
\* which every agent run returned a value and the ticket is a JSON object.
C13_NoExceptionEscapesCycle ==
    (/\ stage = "done"
     /\ feature_ticket.t \in {"NoneType", "dict"}
     /\ \A n \in 1..Len(hist) :
           hist[n].step \in AgentSteps => hist[n].outcome.kind = "return")
    => cycle_result.kind = "return"

-----------------------------------------------------------------------------
(* C18 *)

\* The steps that precede create_pr, in program order
GateSteps == <<"init_git", "pm", "create_branch", "checkout", "builder", "commit_push">>

\* The steps the gates protect
GatedSteps == {"create_pr"} \cup {DownstreamStages[n] : n \in 1..Len(DownstreamStages)}

\* The step ended the way the gate asks for: the git workflows returned True,
\* the product manager returned status success, branch creation and checkout
\* raised nothing, the builder returned status "success" with a true
\* local_changes_made
GatePassed(e) ==
    /\ e.outcome.kind = "return"
    /\ CASE e.step \in {"init_git", "commit_push"} ->
                e.outcome.payload.t = "bool" /\ e.outcome.payload.v
         [] e.step = "pm" ->
                /\ e.outcome.payload.t = "dict"
                /\ "status" \in DOMAIN e.outcome.payload.v
                /\ IsStr(e.outcome.payload.v.status, "success")
         [] e.step = "builder" ->
                /\ e.outcome.payload.t = "dict"
                /\ {"status", "local_changes_made"} \subseteq DOMAIN e.outcome.payload.v
                /\ IsStr(e.outcome.payload.v.status, "success")
                /\ Truthy(e.outcome.payload.v.local_changes_made)
         [] OTHER -> TRUE

\* C18 - PR creation gate: within one cycle create_pr is called, and the
\* documentation, reviewer, QA, impact-analyzer and merge-controller runs
\* happen, only after the initial git workflow succeeded, the product manager
\* returned success, branch creation and checkout succeeded, the builder
\* returned status "success" with local_changes_made true and the commit/push
\* workflow returned success, in that order; a step that fails any of these
\* is the last step of the cycle.
C18_PRCreationGate ==
    \A n \in 1..Len(hist) :
        /\ hist[n].step \in GatedSteps
           => /\ n > Len(GateSteps)
              /\ \A g \in 1..Len(GateSteps) :
                    hist[g].step = GateSteps[g] /\ GatePassed(hist[g])
        /\ (hist[n].step \notin GatedSteps /\ ~GatePassed(hist[n]))
           => (n = Len(hist) /\ stage = "done")

\* create_pr was called and returned; the first downstream run is next
C18_Witness ==
    /\ stage = "doc_push"
    /\ Len(hist) = 7
    /\ hist[7].step = "create_pr"
    /\ hist[7].outcome.kind = "return"
    /\ hist[6].input.changes_detected /\ hist[6].input.push_ok

-----------------------------------------------------------------------------
(* C14 *)

\* The four inputs of the decision taken, risk_score in hundredths
Inputs(t, r, q, risk) ==
    merge_inputs = [tests_pass |-> t, review_score |-> r, qa_pass |-> q, risk_score |-> risk]

\* C14 - Merge decision rule: inputs (1,1,1, risk 0) give confidence 0.9 and
\* merge; inputs (1,1,1, risk 10) give 0.6 and reject; and with tests_pass = 0
\* every review_score, qa_pass and risk_score give confidence <= 0.5 and
\* reject.
C14_MergeDecisionRule ==
    merge_decision.done =>
        /\ Inputs(1, 1, 1, 0) => (merge_decision.confidence = 9000 /\ merge_decision.merge)
        /\ Inputs(1, 1, 1, 1000)
           => (merge_decision.confidence = 6000 /\ ~merge_decision.merge)
        /\ merge_inputs.tests_pass = 0
           => (merge_decision.confidence <= 5000 /\ ~merge_decision.merge)

\* Failed tests with everything else at its best: confidence 0.5, rejected
C14_Witness ==
    /\ merge_decision.done
    /\ Inputs(0, 1, 1, 0)
    /\ merge_decision.confidence = 5000
    /\ ~merge_decision.merge

-----------------------------------------------------------------------------
(* C15 *)

\* C15 - Threshold reachability (as first stated): the decision is merge
\* only when tests_pass = review_score = qa_pass = 1 and risk_score <= 0.33,
\* and every input with a risk_score above 0.33 is rejected.
C15_ThresholdReachability_Original ==
    merge_decision.done =>
        /\ merge_decision.merge
           => /\ merge_inputs.tests_pass = 1
              /\ merge_inputs.review_score = 1
              /\ merge_inputs.qa_pass = 1
              /\ merge_inputs.risk_score <= 33
        /\ merge_inputs.risk_score > 33 => ~merge_decision.merge

\* C15 - Threshold reachability: the decision is merge exactly when
\* tests_pass = review_score = qa_pass = 1 and risk_score < 5/3 (about 1.67);
\* every input with a risk_score of 5/3 or more is rejected.
C15_ThresholdReachability ==
    merge_decision.done =>
        /\ merge_decision.merge
           <=> /\ merge_inputs.tests_pass = 1
               /\ merge_inputs.review_score = 1
               /\ merge_inputs.qa_pass = 1
               /\ merge_inputs.risk_score * 3 < 500
        /\ merge_inputs.risk_score * 3 >= 500 => ~merge_decision.merge

\* The largest risk score in hundredths that still merges: 1.66
C15_Witness ==
    /\ merge_decision.done
    /\ Inputs(1, 1, 1, 166)
    /\ merge_decision.merge

-----------------------------------------------------------------------------
(* C16 *)

\* C16 - Confidence range: for all tests_pass, review_score, qa_pass in {0,1}
\* and risk_score in [0,10] the confidence lies in [-0.3, 0.9]; the minimum is
\* attained at (0,0,0,10) and the maximum at (1,1,1,0).
C16_ConfidenceRange ==
    merge_decision.done =>
        /\ merge_decision.confidence >= -3000
        /\ merge_decision.confidence <= 9000
        /\ Inputs(0, 0, 0, 1000) => merge_decision.confidence = -3000
        /\ Inputs(1, 1, 1, 0) => merge_decision.confidence = 9000

\* The minimum is attained
C16_Witness ==
    /\ merge_decision.done
    /\ Inputs(0, 0, 0, 1000)
    /\ merge_decision.confidence = -3000

-----------------------------------------------------------------------------
(* C17 *)

\* The open pull requests of a head branch
OpenFor(head) == {pr \in pulls : pr.open /\ pr.head = head}

\* C17 - PR idempotence: after any sequence of create_pr calls there is at
\* most one open PR per head branch; a create_pr call for a head that already
\* has an open PR creates nothing and returns the {pr_url, pr_number} of that
\* PR, so two consecutive calls for the same head return the same pair.
C17_PRIdempotence ==
    /\ \A head \in HeadNames : Cardinality(OpenFor(head)) <= 1
    /\ [][\A head \in HeadNames :
             (OpenFor(head) # {} /\ Len(calls') = Len(calls) + 1
              /\ calls'[Len(calls')].op = "create_pr" /\ calls'[Len(calls')].head = head)
             => /\ pulls' = pulls
                /\ \E pr \in OpenFor(head) :
                      /\ calls'[Len(calls')].outcome.kind = "return"
                      /\ calls'[Len(calls')].outcome.pr_number = pr.number
                      /\ calls'[Len(calls')].outcome.pr_url = <<"pull", pr.number>>]_vars
    /\ [](\A n \in 1..(Len(calls) - 1) :
             (/\ calls[n].op = "create_pr" /\ calls[n + 1].op = "create_pr"
              /\ calls[n].head = calls[n + 1].head
              /\ calls[n].outcome.kind = "return")
             => calls[n + 1].outcome = calls[n].outcome)

\* Two consecutive calls for one head, the first of which created the PR
C17_Witness ==
    /\ Len(calls) >= 3
    /\ calls[2].op = "create_pr" /\ calls[3].op = "create_pr"
    /\ calls[2].head = calls[3].head
    /\ calls[2].outcome.kind = "return"
    /\ calls[3].outcome = calls[2].outcome
    /\ Cardinality(pulls) = 1

-----------------------------------------------------------------------------
(* C19, C20 *)

Derived == feature_branch_name # << >>

\* C19 - Branch-name shape: for every feature_id and title the derived branch
\* name has at most 100 characters, all of them ASCII letters, digits, '-' or
\* '_' (the '/' after "feature" becomes '-'); feature_id "F101" with title
\* "Implement Light/Dark Mode Toggle!" gives
\* "feature-F101-implement-light-dark-mode-toggle-".
C19_BranchNameShape ==
    Derived =>
        /\ Len(feature_branch_name) <= 100
        /\ \A n \in 1..Len(feature_branch_name) :
              feature_branch_name[n] \in
                  Range(UpperCase) \cup Range(LowerCase) \cup Digits \cup {"-", "_"}
        /\ SubSeq(feature_branch_name, 1, 8) = <<"f", "e", "a", "t", "u", "r", "e", "-">>
        /\ (ticket_id = F101 /\ ticket_title = LightDarkTitle)
              => feature_branch_name =
                    <<"f", "e", "a", "t", "u", "r", "e", "-", "F", "1", "0", "1", "-", "i", "m", "p", "l", "e", "m", "e", "n", "t", "-">> \o
                    <<"l", "i", "g", "h", "t", "-", "d", "a", "r", "k", "-", "m", "o", "d", "e", "-", "t", "o", "g", "g", "l", "e", "-">>

\* A name that was cut at the limit, in the middle of a title with a
\* character outside the class
C19_Witness ==
    /\ Derived
    /\ ticket_id = LongId
    /\ ticket_title = <<"a", "/", "B">>
    /\ Len(feature_branch_name) = 100
    /\ feature_branch_name[100] = "a"

\* Where the title's part of the name begins
TitleStart == Len(ticket_id) + 10

\* C20 - Separator collapsing: a run of consecutive non-alphanumeric
\* characters of the title becomes a single separator, so the part of the
\* branch name that comes from the title never has two adjacent separators.
C20_SeparatorCollapsing ==
    Derived =>
        \A n \in TitleStart..(Len(feature_branch_name) - 1) :
            ~(feature_branch_name[n] = "-" /\ feature_branch_name[n + 1] = "-")

-----------------------------------------------------------------------------
(* C21 *)

\* C21 as stated - Branch-name lower-casing: for every feature_id and title,
\* the derived branch name contains no upper-case letter.
C21_LowerCasing_Original ==
    Derived =>
        \A n \in 1..Len(feature_branch_name) : feature_branch_name[n] \notin Range(UpperCase)

\* C21 - Branch-name lower-casing: the part of the derived branch name that
\* comes from the title contains no upper-case letter; the feature_id is
\* copied with its letters as they are.
C21_LowerCasing ==
    Derived =>
        /\ \A n \in TitleStart..Len(feature_branch_name) :
              feature_branch_name[n] \notin Range(UpperCase)
        /\ \A n \in 1..Len(ticket_id) :
              (ticket_id[n] \in Range(UpperCase) /\ 8 + n <= Len(feature_branch_name))
                  => feature_branch_name[8 + n] = ticket_id[n]

\* An upper-case letter of the title came out in lower case, after an
\* identifier that kept its upper-case letter
C21_Witness ==
    /\ Derived
    /\ ticket_id = F101
    /\ ticket_title = <<"B", "a", "B">>
    /\ feature_branch_name[9] = "F"
    /\ SubSeq(feature_branch_name, TitleStart, Len(feature_branch_name)) = <<"b", "a", "b">>

-----------------------------------------------------------------------------
(* C22, C23, C25 *)

LastStep == hist[Len(hist)]

\* The cycle ran its last agent run, the documentation after the merge, and
\* that run returned
RanToEnd == Len(hist) > 0 /\ LastStep.step = "doc_merge" /\ LastStep.outcome.kind = "return"

\* C22 - Cycle record written once at the end: in any run of run_devops_cycle
\* the cycle record is inserted at most once, only after the last agent run
\* (the documentation after the merge) has returned; it holds the responses of
\* builder, reviewer, QA, impact analyzer, merge controller and documentation
\* of that cycle; no record is inserted on an early exit.
C22_CycleRecordOnceAtEnd ==
    /\ Len(cycle_log) <= 1
    /\ cycle_log # << >> =>
          /\ stage = "done"
          /\ RanToEnd
          /\ cycle_log[1].builder_response = ResponseOf(hist, "builder")
          /\ cycle_log[1].reviewer_response = ResponseOf(hist, "reviewer")
          /\ cycle_log[1].qa_response = ResponseOf(hist, "qa")
          /\ cycle_log[1].impact_analyzer_response = ResponseOf(hist, "impact")
          /\ cycle_log[1].merge_controller_response = ResponseOf(hist, "merge")
          /\ cycle_log[1].auto_documentation_response = LastStep.outcome.payload
    /\ (stage = "done" /\ ~RanToEnd) => cycle_log = << >>

\* A cycle that obtained its pull request and then left early, through an
\* agent run that raised: nothing is in the log
C22_Witness ==
    /\ stage = "done"
    /\ Len(hist) = 8
    /\ hist[7].step = "create_pr" /\ hist[7].outcome.kind = "return"
    /\ LastStep.step \in GatedSteps
    /\ LastStep.outcome.kind = "raise"
    /\ cycle_result = LastStep.outcome
    /\ cycle_log = << >>

\* C23 - Cycle completion: when the git workflows, branch creation, checkout
\* and PR creation succeed, the product manager yields a ticket with
\* feature_id, title, description, priority and acceptance_criteria, and every
\* agent returns a valid final answer (the builder's with status success and
\* local_changes_made true), the cycle runs every stage through the merge
\* controller and the documentation after the merge and inserts one record.
C23_CycleCompletion ==
    (/\ stage = "done"
     /\ feature_ticket = DocumentValue(D_TICKET)
     /\ \A n \in 1..Len(hist) : GatePassed(hist[n]))
    => /\ RanToEnd
       /\ \E n \in 1..Len(hist) : hist[n].step = "merge"
       /\ Len(cycle_log) = 1

\* C25 - Unconditional downstream sequence: once a PR has been obtained the
\* cycle invokes, in this order, documentation, reviewer, QA, impact analyzer,
\* merge controller, documentation, whatever the earlier ones returned and
\* whatever the merge decision was.
C25_UnconditionalDownstream ==
    \A n \in 1..Len(hist) :
        (stage = "done" /\ hist[n].step = "create_pr" /\ hist[n].outcome.kind = "return")
        => /\ Len(hist) = n + Len(DownstreamStages)
           /\ \A k \in 1..Len(DownstreamStages) : hist[n + k].step = DownstreamStages[k]

-----------------------------------------------------------------------------
(* C24 *)

-----------------------------------------------------------------------------
(* C26, C27 *)

\* A git command that ran and failed; a commit that had nothing to commit is
\* not counted
GitFailed(e) == e.outcome \in {"fail", "rejected"}

\* git commit reported that there was nothing to commit
NothingToCommit(outcome) == outcome \in {"nothing", "nothing_stdout"}

\* C26 - Git failures are reported as failure: automated_git_workflow returns
\* False whenever a git command it ran (clone, status, add, commit other than
\* "nothing to commit", pull, push) failed, and True only if none failed.
C26_GitFailuresReported ==
    git_step = "done" =>
        (git_success <=> \A n \in 1..Len(git_trace) : ~GitFailed(git_trace[n]))

CommandOrder == <<"clone", "status", "add", "commit", "pull", "push">>

Rank(command) == CHOOSE n \in 1..Len(CommandOrder) : CommandOrder[n] = command

Commands(trace) == {trace[n].command : n \in 1..Len(trace)}

\* C27 - Git workflow step order: clone-if-absent, detect-changes, stage-all,
\* commit, pull, push are each executed at most once and in that order, each
\* only if every earlier step succeeded; when no changes are detected nothing
\* is staged, committed, pulled or pushed; a commit that reports "nothing to
\* commit" counts as success; a failed pull prevents the push; a rejected push
\* yields failure and is not retried.
C27_GitStepOrder ==
    /\ \A n \in 1..Len(git_trace), m \in 1..Len(git_trace) :
          n < m => Rank(git_trace[n].command) < Rank(git_trace[m].command)
    /\ \A n \in 1..(Len(git_trace) - 1) :
          git_trace[n].outcome \in {"ok", "changes"} \/ NothingToCommit(git_trace[n].outcome)
    /\ "clone" \in Commands(git_trace) => ~git_world.repo_exists
    /\ (git_step \notin {"clone", "done"} /\ ~git_world.repo_exists)
          => "clone" \in Commands(git_trace)
    /\ (git_step \notin {"clone", "detect"} /\ git_world.status # "changes")
          => Commands(git_trace) \cap {"add", "commit", "pull", "push"} = {}
    /\ (git_step = "done" /\ "commit" \in Commands(git_trace)
        /\ NothingToCommit(git_world.commit))
          => "pull" \in Commands(git_trace)
    /\ ("pull" \in Commands(git_trace) /\ git_world.pull = "fail")
          => "push" \notin Commands(git_trace)
    /\ ("push" \in Commands(git_trace) /\ git_world.push = "rejected")
          => git_step = "done" /\ ~git_success
    /\ (git_step = "done" /\ Len(git_trace) > 0
        /\ git_trace[Len(git_trace)].command = "push" /\ git_trace[Len(git_trace)].outcome = "ok")
          => git_success

-----------------------------------------------------------------------------
(* C28, C29, C30 *)

\* The loop ran all its rounds and fell through to the return after it
Exhausted ==
    /\ pc = "done"
    /\ i = (IF agent = "pm" THEN pm_max_iterations ELSE max_iterations)

\* C28 - Exhaustion diagnostic: in every agent loop the result returned after
\* the iteration bound is reached has status failure, a message stating that
\* the maximum number of iterations was reached, and carries the raw response
\* text of the last round.
C28_ExhaustionDiagnostic ==
    Exhausted =>
        /\ result.kind = "return"
        /\ result.payload.t = "dict"
        /\ {"status", "message", "raw_response"} \subseteq DOMAIN result.payload.v
        /\ IsStr(result.payload.v.status, "failure")
        /\ IsStr(result.payload.v.message, EXHAUSTED_MESSAGE)
        /\ result.payload.v.raw_response =
              PyText(ResponseText(agent, rounds[Len(rounds)].response).text)

\* C29 - Empty model content: in every agent other than the product manager a
\* model response with no textual content is a round with empty response
\* text: no final answer and no tool call is found, one assistant free-text
\* segment with empty text is appended, the round counts against the bound,
\* and the loop goes on without raising or terminating.
C29_EmptyModelContent ==
    agent # "pm" =>
        \A n \in 1..Len(rounds) :
            ~rounds[n].response.parts
            => /\ rounds[n].event = "text"
               /\ current_prompt[n + 1] = AssistantSegment(<< >>)
               /\ i >= n
               /\ ((n = Len(rounds) /\ n < max_iterations /\ callFailure = NoFailure)
                      => pc = "model")

\* C30 - Uniform retry coverage: in each of the seven agents every model call
\* goes through the retryable caller, so a call whose first attempt fails
\* with the rate-limited kind is attempted again and the round can proceed
\* with the successful response.
C30_UniformRetryCoverage ==
    failed = <<"ResourceExhausted">> => (pc = "model" /\ result = NoResult)

-----------------------------------------------------------------------------
(* C31 *)

NotWS(tok) == tok # WS

\* The tokens between the first opening delimiter and the nearest closing
\* delimiter after it; none: there is no such pair
FirstBlock(open, close, text) ==
    LET opens == {n \in 1..Len(text) : text[n] = open}
        a == IF opens = {} THEN 0 ELSE CHOOSE n \in opens : \A m \in opens : n <= m
        closes == {n \in (a + 1)..Len(text) : text[n] = close}
        b == IF closes = {} THEN 0 ELSE CHOOSE n \in closes : \A m \in closes : n <= m
    IN  IF a = 0 \/ b = 0 THEN [none |-> TRUE, body |-> << >>]
        ELSE [none |-> FALSE, body |-> SubSeq(text, a + 1, b - 1)]

\* The block is one JSON document, white space aside
IsDocument(body) ==
    Len(SelectSeq(body, NotWS)) = 1 /\ SelectSeq(body, NotWS)[1] \in Documents

DocumentOf(body) == DocumentValue(SelectSeq(body, NotWS)[1])

\* C31 - First delimiter pair only: each extractor considers only the first
\* opening delimiter and the nearest closing delimiter after it; when that
\* block does not JSON-decode the result is "absent", even if a later block of
\* the kind is well formed, and when it decodes, later blocks are ignored.
C31_FirstDelimiterPairOnly ==
    pout.done =>
        LET fa == FirstBlock(FA_OPEN, FA_CLOSE, ptext)
            tc == FirstBlock(TC_OPEN, TC_CLOSE, ptext)
        IN  /\ pout.final_answer =
                  IF ~fa.none /\ IsDocument(fa.body) THEN DocumentOf(fa.body) ELSE PyNone
            /\ (tc.none \/ ~IsDocument(tc.body))
                  => (pout.tool_code.exc = "" /\ pout.tool_code.tool_name = PyNone)
            /\ (~tc.none /\ IsDocument(tc.body) /\ DocumentOf(tc.body).t = "dict")
                  => pout.tool_code.tool_name = DictGet(DocumentOf(tc.body), "tool_name", PyNone)

\* The first block holds prose and a well-formed one follows: absent
C31_Witness ==
    /\ pout.done
    /\ ptext = <<FA_OPEN, PROSE, FA_CLOSE, FA_OPEN, D_FA, FA_CLOSE>>
    /\ pout.final_answer = PyNone

\* The first block decodes and another follows: the first one's value
C31_WitnessLater ==
    /\ pout.done
    /\ ptext = <<TC_OPEN, D_CALL_LOG, TC_CLOSE, TC_OPEN, D_OBJ_EMPTY, TC_CLOSE>>
    /\ pout.tool_code.tool_name = PyStr("MongoDB_InsertLog")

-----------------------------------------------------------------------------
(* C32 *)

\* The rounds of the current run that appended a segment
Appending(rs) ==
    LET appended(r) == r.event \notin {"final", "raise"}
    IN  SelectSeq(rs, appended)

\* The segment that a round of the current run appended: its kind follows
\* the round's event
IsSegmentOf(segment, ag, r) ==
    IF ag = "pm"
    THEN segment \in {PMNoTextSegment, PMNoTagsSegment,
                      PMInvalidJSONSegment(strip(re_search(JO_OPEN, JO_CLOSE,
                                                           r.response.text).group1))}
    ELSE CASE r.event = "tool_ok" -> segment = ToolOutputSegment(r.tool)
           [] r.event = "tool_error" -> segment = ToolErrorSegment(r.tool)
           [] OTHER -> segment = AssistantSegment(ResponseText(ag, r.response).text)

C32_WitnessOther ==
    /\ Len(prior) = 1
    /\ prior[1].agent # agent
    /\ Len(prior[1].prompt) > 1
    /\ current_prompt = <<Template>>
    /\ pc = "model"

-----------------------------------------------------------------------------
(* C33 *)

SegmentKinds == {"Tool Output", "Tool Error", "LLM Thought/Response"}

\* The rounds among rs in which a registered tool was looked up and called
ToolInvocations(rs) == {n \in 1..Len(rs) : rs[n].tool # ""}

\* C33 - One segment per round: in a run of a tool-using agent, after k
\* rounds that did not end the run the conversation is the template plus
\* exactly k segments, the n-th of them of exactly one of the three kinds
\* (tool output, tool error, assistant free text) and of the kind of what
\* round n did, and at most k tools were invoked, at most one per round; a
\* round that ends the run appends nothing.
C33_OneSegmentPerRound ==
    agent \in ToolAgents =>
        LET own == Appending(rounds)
            k == Len(own)
        IN  /\ i = k
            /\ Len(current_prompt) = 1 + k
            /\ \A n \in 1..k :
                   /\ current_prompt[n + 1].kind \in SegmentKinds
                   /\ (current_prompt[n + 1].kind = "Tool Output") = (own[n].event = "tool_ok")
                   /\ (current_prompt[n + 1].kind = "Tool Error") = (own[n].event = "tool_error")
                   /\ (current_prompt[n + 1].kind = "LLM Thought/Response")
                          = (own[n].event = "text")
                   /\ own[n].tool # "" => own[n].event \in {"tool_ok", "tool_error"}
            /\ Cardinality(ToolInvocations(own)) <= k
            /\ Len(rounds) - k <= 1

\* A builder run in its fourth round after two tool outputs and one tool
\* error
C33_Witness ==
    /\ agent = "builder"
    /\ pc = "model"
    /\ i = 3
    /\ Cardinality(ToolInvocations(rounds)) = 3
    /\ \E n \in 2..4 : current_prompt[n].kind = "Tool Error"
    /\ \E n \in 2..4 : current_prompt[n].kind = "Tool Output"

-----------------------------------------------------------------------------
(* C34 *)

\* C34 - Retry budget is per round: in the builder loop the attempts of a
\* round are counted from one in every round, so at most 3 attempts are made
\* in a round whatever earlier rounds absorbed; over a run at most
\* 3 * max_iterations (30) invocations of the model are attempted and at most
\* max_iterations (10) successful responses are consumed.
C34_RetryBudgetPerRound ==
    /\ Len(failed) <= stop_after_attempt
    /\ pc = "model" => Len(failed) < stop_after_attempt
    /\ attempts - Len(failed) <= stop_after_attempt * Len(rounds)
    /\ attempts <= stop_after_attempt * max_iterations
    /\ attempts <= 30
    /\ Len(rounds) <= max_iterations
    /\ Len(rounds) <= 10

\* The third round absorbs two rate-limited failures after each of the two
\* rounds before it absorbed two and then got its response
C34_Witness ==
    /\ agent = "builder"
    /\ pc = "model"
    /\ Len(rounds) = 2
    /\ attempts = 8
    /\ failed = <<"ResourceExhausted", "ResourceExhausted">>

\* A run that used the whole budget: thirty invocations, ten responses
C34_WitnessFull ==
    /\ agent = "builder"
    /\ attempts = 30
    /\ Len(rounds) = 10

-----------------------------------------------------------------------------
(* C35 *)

\* How far a run of automated_git_workflow gets in env: it stages when the
\* checkout is there and changes were detected, commits when staging
\* succeeded, and pulls and pushes its branch when the commit succeeded
Stages(env) == env.clone_ok /\ env.changes_detected

Commits(env) == Stages(env) /\ env.stage_ok

Pushes(env) == Commits(env) /\ env.commit_ok

\* C35 - No push to main by a cycle: whatever the state of the working tree
\* when the cycle starts, the git workflow that the cycle runs on 'main' to
\* initialize the repository never stages, commits or pushes; only the
\* workflow on the feature branch does.
C35_NoPushToMain ==
    \A n \in 1..Len(hist) :
        hist[n].step = "init_git" => ~Stages(hist[n].input)

-----------------------------------------------------------------------------
(* C36 *)

\* C36 - PR only after a push: in any cycle create_pr is called only after
\* the commit/push workflow of the same cycle pushed the feature branch and
\* the push succeeded.
C36_PROnlyAfterPush ==
    \A n \in 1..Len(hist) :
        hist[n].step = "create_pr"
        => \E m \in 1..(n - 1) :
              /\ hist[m].step = "commit_push"
              /\ Pushes(hist[m].input)
              /\ hist[m].input.push_ok

-----------------------------------------------------------------------------
(* C37 *)

\* The round's response calls a tool of the agent's registry with exactly the
\* parameter names of the tool's description
CallsAsAdvertised(ag, r) ==
    LET rt == ResponseText(ag, r.response)
        tc == parse_tool_code(rt.text)
    IN  /\ rt.exc = ""
        /\ ~IsFinal(parse_final_answer(rt.text))
        /\ tc.exc = ""
        /\ ToolTest(ag, tc.tool_name) = "yes"
        /\ tc.tool_params.t = "dict"
        /\ DOMAIN tc.tool_params.v = Advertised(tc.tool_name.v)

\* C37 - Advertised tool parameters are dispatchable: a round whose tool call
\* names a tool of the agent's registry and uses exactly the parameter names
\* of that tool's description binds to the registered capability, so when
\* the capability itself does not raise the round appends a tool-output
\* segment.
C37_AdvertisedParametersDispatch ==
    \A n \in 1..Len(rounds) :
        CallsAsAdvertised(agent, rounds[n])
        => /\ Binds(rounds[n].tool, parse_tool_code(rounds[n].response.text).tool_params)
           /\ Dispatch(agent, rounds[n].response, FALSE).event = "tool_ok"

-----------------------------------------------------------------------------
(* C38 *)

\* Step 1 of the merge controller's prompt: the formula's variables read
\* from what the cycle handed over
FormulaInputs(handed) ==
    [tests_pass |-> IF Truthy(handed.test_results.v.success) THEN 1 ELSE 0,
     review_score |-> IF IsStr(handed.review_feedback.v.review_summary, "Approved")
                      THEN 1 ELSE 0,
     qa_pass |-> IF Truthy(handed.qa_report.v.ui_bugs_detected) THEN 0 ELSE 1,
     risk_score |-> handed.risk_score]

\* C38 - Orchestrator inputs versus the merge threshold: whatever the
\* upstream agents returned, the cycle hands the merge controller tests
\* passed, review approved, no UI bugs and risk score 2.5; the documented
\* formula gives 0.4 + 0.3 + 0.2 - 0.3 * (2.5 / 10) = 0.825 for them, which is
\* not greater than 0.85, so the formula's decision is reject.
C38_InputsBelowThreshold ==
    merge_handed.handed =>
        LET in == FormulaInputs(merge_handed)
            c == confidence(in.tests_pass, in.review_score, in.qa_pass, in.risk_score)
        IN  /\ in = [tests_pass |-> 1, review_score |-> 1, qa_pass |-> 1, risk_score |-> 250]
            /\ c = 8250
            /\ c <= 8500
            /\ ~should_merge(c)

\* The inputs were handed over in a cycle whose builder and reviewer had
\* returned failure payloads
C38_Witness ==
    /\ merge_handed.handed
    /\ BuilderFailed(ResponseOf(hist, "builder"))
    /\ IsStr(ResponseOf(hist, "reviewer").v.status, "failure")

-----------------------------------------------------------------------------
(* C39 *)

\* The response has text with a json_output block that JSON-decodes
PMDecodes(response) ==
    response.parts /\ HasDecodableBlock(JO_OPEN, JO_CLOSE, response.text)

\* The error segment that the product manager appends for a response it
\* cannot use
PMErrorSegment(response) ==
    IF ~response.parts THEN PMNoTextSegment
    ELSE IF ~re_search(JO_OPEN, JO_CLOSE, response.text).matched THEN PMNoTagsSegment
    ELSE PMInvalidJSONSegment(strip(re_search(JO_OPEN, JO_CLOSE, response.text).group1))

\* C39 - Product-manager loop bound: process_comment makes at most 3 rounds;
\* a round whose response is empty, lacks the json_output delimiters or has
\* undecodable JSON appends exactly one error segment and uses up one round;
\* the first round whose block decodes returns {status: success, output:
\* decoded value} at once, an empty object included; after 3 rounds without
\* such a block the result has status failure.
C39_ProductManagerLoopBound ==
    agent = "pm" =>
        LET k == Len(rounds)
            unusable == {n \in 1..k : ~PMDecodes(rounds[n].response)}
        IN  /\ k <= pm_max_iterations
            /\ k <= 3
            /\ i = Cardinality(unusable)
            /\ Len(current_prompt) = 1 + Cardinality(unusable)
            /\ \A n \in 1..k :
                   IF PMDecodes(rounds[n].response)
                   THEN /\ n = k
                        /\ pc = "done"
                        /\ result = Return(PyDict(
                              [status |-> PyStr("success"),
                               output |-> BlockValue(JO_OPEN, JO_CLOSE,
                                                     rounds[n].response.text)]))
                   ELSE current_prompt[n + 1] = PMErrorSegment(rounds[n].response)
            /\ (k = 3 /\ unusable = 1..3) => (pc = "done" /\ ReturnedFailure)
            /\ (pc = "done" /\ callFailure = NoFailure)
                  => (k = 3 \/ (k > 0 /\ PMDecodes(rounds[k].response)))

\* The third round got a block that decodes to an empty object, after two
\* responses without the delimiters
C39_Witness ==
    /\ agent = "pm"
    /\ Len(rounds) = 3
    /\ Len(current_prompt) = 3
    /\ pc = "done"
    /\ result = Return(PyDict([status |-> PyStr("success"), output |-> EmptyDict]))

\* Three rounds without a usable block: the run ends with a failure result
C39_WitnessExhausted ==
    /\ agent = "pm"
    /\ Len(rounds) = 3
    /\ Len(current_prompt) = 4
    /\ current_prompt[4].kind = "Error: Invalid JSON format"
    /\ ReturnedFailure

-----------------------------------------------------------------------------
(* C40 *)

\* C40 - Builder result frame: when BuilderAgent.run returns on a final
\* answer that is an object, the payload has the keys of the decoded object
\* other than pr_url and pr_number, each with the decoded value, and no
\* other key; an answer without a status key is returned without one, and
\* the cycle's test of the status then makes it return the builder's payload
\* before any commit, push or pull request.
C40_BuilderResultFrame ==
    (/\ agent = "builder"
     /\ Len(rounds) > 0
     /\ rounds[Len(rounds)].event = "final"
     /\ BlockValue(FA_OPEN, FA_CLOSE, rounds[Len(rounds)].response.text).t = "dict")
    => LET fa == BlockValue(FA_OPEN, FA_CLOSE, rounds[Len(rounds)].response.text)
       IN  /\ result.kind = "return"
           /\ result.payload.t = "dict"
           /\ DOMAIN result.payload.v = DOMAIN fa.v \ {"pr_url", "pr_number"}
           /\ \A key \in DOMAIN result.payload.v : result.payload.v[key] = fa.v[key]
           /\ "status" \notin DOMAIN fa.v
                 => /\ "status" \notin DOMAIN result.payload.v
                    /\ BuilderFailed(result.payload)

\* The builder returned on an answer without a status key that carried a
\* pr_url
C40_Witness ==
    /\ agent = "builder"
    /\ pc = "done"
    /\ Len(rounds) > 0
    /\ rounds[Len(rounds)].response = Response(FinalAnswerBlock(D_FA_NOSTATUS))
    /\ result = Return(PyDict([message |-> PyStr("m"), local_changes_made |-> PyBool(TRUE)]))

=============================================================================
